---- MODULE Spec2Model ----
(***************************************************************************)
(* Availability resolution and backup substitution of the Target RedCircle *)
(* backend: services/stock/availability.ts, services/stock/                *)
(* product-selector.ts, services/target/api.ts and utils/cache.ts.         *)
(***************************************************************************)
EXTENDS Integers, Sequences, FiniteSets, TLC

VARIABLES
    selIn,        \* a function on its own: its arguments (selection pipeline:
                  \* the request and the availability map)
    selOut,       \* a function on its own: its result (selection pipeline:
                  \* the selection result and the response)
    clock,        \* Date.now(), in milliseconds
    stockCache,   \* data of the stockCache instance: key -> [v, t]
    productCache, \* data of the productCache instance: key -> [v, t]
    stored,       \* history: per cache and key, the last setCachedValue call
    req,          \* per resolution: the request of selectAvailableProducts
    pc,           \* per resolution: "idle", "waiting", "done" or "raised"
    batch,        \* per resolution: productIds and the time it started
    call,         \* per resolution: tcin -> the checkStoreStock promise
    out           \* per resolution: what selectAvailableProducts returned

selVars == <<selIn, selOut>>
flowVars == <<clock, stockCache, productCache, stored, req, pc, batch, call, out>>
vars == <<selIn, selOut, clock, stockCache, productCache, stored, req, pc, batch, call, out>>

(***************************************************************************)
(* Values                                                                  *)
(***************************************************************************)

\* JavaScript's undefined: an absent map entry, an omitted optional argument.
undefined == [undefined |-> TRUE]

\* a || b on operands that are objects or undefined.
OrElse(a, b) == IF a # undefined THEN a ELSE b

\* 8-digit TCINs that pass validateRequest.
TCINS == {"12345678", "87654321", "00000123"}

\* Number(productId).toString() on the identifiers of the model.
NumberToString(productId) ==
    CASE productId \in {"00000123", "0123"} -> "123"
      [] productId \in {"12345678", "87654321", "123"} -> productId
      [] OTHER -> "NaN"

\* !isNaN(Number(productId))
IsNumeric(productId) == NumberToString(productId) # "NaN"

\* Map.get(key)
MapGet(map, key) == IF key \in DOMAIN map THEN map[key] ELSE undefined

\* Map.set(key, value)
MapSet(map, key, value) ==
    [k \in (DOMAIN map) \cup {key} |-> IF k = key THEN value ELSE map[k]]

EmptyMap == [k \in {} |-> undefined]

\* An optional string argument: omitted, or a string (possibly empty).
NoString == [defined |-> FALSE, value |-> ""]
Str(s) == [defined |-> TRUE, value |-> s]

\* Truthiness of an optional string: undefined and "" are falsy.
Truthy(s) == s.defined /\ s.value # ""

(***************************************************************************)
(* utils/cache.ts and the node-cache instance behind it                    *)
(***************************************************************************)

STOCK_CACHE_TTL == 300
PRODUCT_CACHE_TTL == 3600

\* `stock:${zipCode}:${storeId || 'undefined'}:${tcin}`
generateProductStockCacheKey(zipCode, tcin, storeId) ==
    "stock:" \o zipCode \o ":"
        \o (IF Truthy(storeId) THEN storeId.value ELSE "undefined")
        \o ":" \o tcin

\* An optional ttl argument: <<>> when omitted, <<seconds>> when given.
NoTtl == <<>>

\* `product:${tcin}`
generateProductCacheKey(tcin) == "product:" \o tcin

\* An expiry test that already fails at the expiry instant itself.
Expired_AtExpiry(entry, now) == entry.t # 0 /\ entry.t <= now

\* node-cache: an entry is stale once its expiry t is set (not 0) and lies
\* before the current time.
Expired(entry, now) == entry.t # 0 /\ entry.t < now

\* cache.get(key): the value of a live entry, else undefined.
NodeCacheGet(cache, key, now) ==
    IF key \in DOMAIN cache /\ ~Expired(cache[key], now)
    THEN cache[key].v
    ELSE undefined

\* What cache.get(key) leaves behind: a stale entry is deleted on access.
NodeCacheAfterGet(cache, key, now) ==
    IF key \in DOMAIN cache /\ Expired(cache[key], now)
    THEN [k \in (DOMAIN cache) \ {key} |-> cache[k]]
    ELSE cache

\* cache.set(key, value, ttl): ttl in seconds, the instance's stdTTL when
\* omitted; a ttl of 0 stores an entry that never expires (t = 0).
NodeCacheSet(cache, key, value, ttl, now, stdTTL) ==
    LET seconds == IF ttl = NoTtl THEN stdTTL ELSE ttl[1]
        livetime == IF seconds = 0 THEN 0 ELSE now + seconds * 1000
    IN  MapSet(cache, key, [v |-> value, t |-> livetime])

\* The periodic sweep (checkperiod): every stale entry is deleted.
NodeCacheCheckData(cache, now) ==
    [k \in {key \in DOMAIN cache : ~Expired(cache[key], now)} |-> cache[k]]

\* cache.del(key)
NodeCacheDel(cache, key) == [k \in (DOMAIN cache) \ {key} |-> cache[k]]

getCachedValue(cache, key, now) == NodeCacheGet(cache, key, now)

\* setCachedValue as it was before the fix: cache.set(key, value, ttl || 0).
setCachedValue_TtlOrZero(cache, key, value, ttl, now, stdTTL) ==
    NodeCacheSet(cache, key, value, IF ttl = NoTtl THEN <<0>> ELSE ttl, now, stdTTL)

setCachedValue(cache, key, value, ttl, now, stdTTL) ==
    IF ttl # NoTtl
    THEN NodeCacheSet(cache, key, value, ttl, now, stdTTL)
    ELSE NodeCacheSet(cache, key, value, NoTtl, now, stdTTL)

(***************************************************************************)
(* services/target/api.ts                                                  *)
(***************************************************************************)

\* An upstream answer to one store_stock request: a response body, or an
\* axios error with the HTTP status of its response (0: no response at
\* all, a transport error or the per-call timeout).
\* errorCode is the error.code field of the error response's body ("" when
\* there is none).
Ok(body) == [ok |-> TRUE, body |-> body, status |-> 200, errorCode |-> ""]
Failed(status, errorCode) ==
    [ok |-> FALSE, body |-> undefined, status |-> status, errorCode |-> errorCode]

\* A response body that is not an object: the empty body of a 200 answer.
EmptyBody == [empty |-> TRUE]

\* if (value) on a response body.
TruthyBody(body) == body # undefined /\ body # EmptyBody

\* The Store_stock_results field of a body: missing, an array of stores, or
\* a value that is not an array.
NoResults == [kind |-> "missing", list |-> <<>>]
Results(stores) == [kind |-> "array", list |-> stores]
Malformed == [kind |-> "malformed", list |-> <<>>]
Body(results) == [Store_stock_results |-> results]

\* handleApiError: the code of the ApiError made from an axios error.
handleApiError(error) ==
    IF error.status = 404 \/ error.errorCode = "PRODUCT_NOT_FOUND"
    THEN "PRODUCT_NOT_FOUND"
    ELSE IF error.status = 429 \/ error.errorCode = "RATE_LIMIT_EXCEEDED"
    THEN "RATE_LIMIT_EXCEEDED"
    ELSE IF error.status = 401 \/ error.status = 403
    THEN "UNAUTHORIZED"
    ELSE IF error.status # 0 THEN ToString(error.status) ELSE "NETWORK_ERROR"

\* A checkStoreStock promise: pending on the upstream request, fulfilled
\* with a body (from the cache or from upstream), or rejected with an ApiError.
Pending == [state |-> "pending", stock |-> undefined, code |-> "", fromCache |-> FALSE]
Fulfilled(body, fromCache) ==
    [state |-> "fulfilled", stock |-> body, code |-> "", fromCache |-> fromCache]
Rejected(code) == [state |-> "rejected", stock |-> undefined, code |-> code, fromCache |-> FALSE]

\* checkStoreStock up to its await: a truthy cached body is returned at once,
\* otherwise the request is sent.
checkStoreStock_Begin(cache, tcin, zipCode, storeId, skipCache, now) ==
    LET cacheKey == generateProductStockCacheKey(zipCode, tcin, storeId)
        cached == getCachedValue(cache, cacheKey, now)
    IN  IF ~skipCache /\ TruthyBody(cached)
        THEN Fulfilled(cached, TRUE)
        ELSE Pending

\* A read that stores the entry it hit again, restarting its lifetime.
checkStoreStock_CacheAfterBegin_TouchOnHit(cache, tcin, zipCode, storeId, skipCache, now) ==
    LET cacheKey == generateProductStockCacheKey(zipCode, tcin, storeId)
        cached == getCachedValue(cache, cacheKey, now)
    IN  IF skipCache
        THEN cache
        ELSE IF TruthyBody(cached)
        THEN NodeCacheSet(cache, cacheKey, cached, NoTtl, now, STOCK_CACHE_TTL)
        ELSE NodeCacheAfterGet(cache, cacheKey, now)

\* The cache after checkStoreStock's read of it.
checkStoreStock_CacheAfterBegin(cache, tcin, zipCode, storeId, skipCache, now) ==
    IF skipCache
    THEN cache
    ELSE NodeCacheAfterGet(cache, generateProductStockCacheKey(zipCode, tcin, storeId), now)

\* checkStoreStock after its await: the body of a response is returned, an
\* axios error is rethrown as an ApiError.
checkStoreStock_End(answer) ==
    IF answer.ok
    THEN Fulfilled(answer.body, FALSE)
    ELSE Rejected(handleApiError(answer))

\* A cache that also remembers a failed lookup, as an empty body.
checkStoreStock_CacheAfterEnd_CachesFailure(cache, tcin, zipCode, storeId, answer, now) ==
    setCachedValue(cache, generateProductStockCacheKey(zipCode, tcin, storeId),
                   IF answer.ok THEN answer.body ELSE EmptyBody, NoTtl, now,
                   STOCK_CACHE_TTL)

\* A cache in which a response does not replace an entry that is there.
checkStoreStock_CacheAfterEnd_FirstWriteWins(cache, tcin, zipCode, storeId, answer, now) ==
    IF answer.ok /\ generateProductStockCacheKey(zipCode, tcin, storeId) \notin DOMAIN cache
    THEN setCachedValue(cache, generateProductStockCacheKey(zipCode, tcin, storeId),
                        answer.body, NoTtl, now, STOCK_CACHE_TTL)
    ELSE cache

\* The cache after checkStoreStock's await: written only after a response.
checkStoreStock_CacheAfterEnd(cache, tcin, zipCode, storeId, answer, now) ==
    IF answer.ok
    THEN setCachedValue(cache, generateProductStockCacheKey(zipCode, tcin, storeId),
                        answer.body, NoTtl, now, STOCK_CACHE_TTL)
    ELSE cache

\* The wrapper of checkBulkStoreStock without its catch: a rejection of
\* checkStoreStock is the wrapper's rejection.
BulkEntry_NoCatch(tcin, promise) ==
    [tcin |-> tcin, stock |-> promise.stock, rejected |-> promise.state = "rejected"]

\* The async wrapper checkBulkStoreStock maps over tcins: { tcin, stock, error }
\* with stock null after a rejection; the wrapper itself never rejects.
BulkEntry(tcin, promise) ==
    [tcin |-> tcin, stock |-> promise.stock, rejected |-> FALSE]

\* A results.forEach that gives up at the first result without a stock.
RECURSIVE BuildStockMap_StopAtFailure(_, _, _)
BuildStockMap_StopAtFailure(stockMap, results, i) ==
    IF i > Len(results) \/ ~TruthyBody(results[i].stock)
    THEN stockMap
    ELSE LET tcin == results[i].tcin
             stock == results[i].stock
             m1 == MapSet(stockMap, tcin, stock)
         IN  BuildStockMap_StopAtFailure(
                 IF IsNumeric(tcin) THEN MapSet(m1, NumberToString(tcin), stock) ELSE m1,
                 results, i + 1)

\* results.forEach of checkBulkStoreStock: the stock map, filled in the order
\* of tcins under the identifier and under its numeric string.
RECURSIVE BuildStockMap(_, _, _)
BuildStockMap(stockMap, results, i) ==
    IF i > Len(results)
    THEN stockMap
    ELSE LET tcin == results[i].tcin
             stock == results[i].stock
             m1 == MapSet(MapSet(stockMap, tcin, stock), tcin, stock)
             m2 == IF IsNumeric(tcin) THEN MapSet(m1, NumberToString(tcin), stock) ELSE m1
         IN  BuildStockMap(IF TruthyBody(stock) THEN m2 ELSE stockMap, results, i + 1)

\* checkBulkStoreStock from the join on: Promise.all rejects when a wrapper
\* rejected, else the stock map is built from the results in tcins order.
checkBulkStoreStock_Join(tcins, promises) ==
    LET results == [i \in 1..Len(tcins) |-> BulkEntry(tcins[i], promises[tcins[i]])]
    IN  IF \E i \in 1..Len(results) : results[i].rejected
        THEN [rejected |-> TRUE, stockMap |-> EmptyMap]
        ELSE [rejected |-> FALSE, stockMap |-> BuildStockMap(EmptyMap, results, 1)]

(***************************************************************************)
(* services/stock/availability.ts: lookups                                 *)
(***************************************************************************)

isProductAvailable_InStockOnly(availability) ==
    IF availability = undefined THEN FALSE ELSE availability.inStock

\* A usable predicate that accepts every product that has a record.
isProductAvailable_AnyRecord(availability) == availability # undefined

isProductAvailable(availability) ==
    IF availability = undefined
    THEN FALSE
    ELSE availability.inStock /\ availability.availableQuantity > 0

getAvailability(availabilityMap, productId) ==
    OrElse(MapGet(availabilityMap, productId),
           OrElse(MapGet(availabilityMap, productId),
                  MapGet(availabilityMap, NumberToString(productId))))

(***************************************************************************)
(* services/stock/availability.ts: batch resolution                        *)
(***************************************************************************)

\* stores.find((s) => s.Store_id === preferredStoreId)
RECURSIVE FindStoreById(_, _, _)
FindStoreById(stores, preferredStoreId, i) ==
    IF i > Len(stores) THEN undefined
    ELSE IF stores[i].Store_id = preferredStoreId THEN stores[i]
    ELSE FindStoreById(stores, preferredStoreId, i + 1)

\* stores.find((s) => s.In_stock && s.Stock_level > 0)
RECURSIVE FindInStock(_, _)
FindInStock(stores, i) ==
    IF i > Len(stores) THEN undefined
    ELSE IF stores[i].In_stock /\ stores[i].Stock_level > 0 THEN stores[i]
    ELSE FindInStock(stores, i + 1)

\* A selection that prefers a store in stock to the requested store.
selectBestStore_InStockFirst(stores, preferredStoreId) ==
    IF Len(stores) = 0
    THEN undefined
    ELSE LET userStore == IF Truthy(preferredStoreId)
                          THEN FindStoreById(stores, preferredStoreId.value, 1)
                          ELSE undefined
             inStockStore == FindInStock(stores, 1)
         IN  IF inStockStore # undefined THEN inStockStore
             ELSE IF userStore # undefined THEN userStore
             ELSE stores[1]

selectBestStore(stores, preferredStoreId) ==
    IF Len(stores) = 0
    THEN undefined
    ELSE LET userStore == IF Truthy(preferredStoreId)
                          THEN FindStoreById(stores, preferredStoreId.value, 1)
                          ELSE undefined
             inStockStore == FindInStock(stores, 1)
         IN  IF userStore # undefined THEN userStore
             ELSE IF inStockStore # undefined THEN inStockStore
             ELSE stores[1]

\* A store under the identifier as written only.
setAvailabilityForAllKeyTypes_OriginalOnly(map, productId, availability) ==
    MapSet(MapSet(map, productId, availability), productId, availability)

setAvailabilityForAllKeyTypes(map, productId, availability) ==
    LET m1 == MapSet(MapSet(map, productId, availability), productId, availability)
    IN  IF IsNumeric(productId)
        THEN MapSet(m1, NumberToString(productId), availability)
        ELSE m1

\* The record of a product without usable stock data.
Unavailable(productId) ==
    [productId |-> productId, inStock |-> FALSE, availableQuantity |-> 0]

ProductError(productId, code) == [productId |-> productId, code |-> code]

\* The stock data checkBatchAvailability finds for a product in the map of
\* checkBulkStoreStock.
StockDataOf(stockResults, productId) ==
    LET first == MapGet(stockResults, productId)
        second == MapGet(stockResults, productId)
        third == MapGet(stockResults, NumberToString(productId))
    IN  IF TruthyBody(first) THEN first
        ELSE IF TruthyBody(second) THEN second
        ELSE third

\* A loop body that leaves a product without stock data out of the map and
\* out of the errors.
ResolveProduct_OmitUnavailable(acc, productId, stockResults, storeId) ==
    LET stockData == StockDataOf(stockResults, productId)
    IN  IF ~TruthyBody(stockData) \/ stockData.Store_stock_results.kind # "array"
        THEN acc
        ELSE LET selectedStore == selectBestStore(stockData.Store_stock_results.list, storeId)
             IN  IF selectedStore = undefined
                 THEN acc
                 ELSE [availabilityMap |->
                           setAvailabilityForAllKeyTypes(acc.availabilityMap, productId,
                               [productId |-> productId,
                                inStock |-> selectedStore.In_stock /\ selectedStore.Stock_level > 0,
                                availableQuantity |-> selectedStore.Stock_level,
                                storeId |-> selectedStore.Store_id]),
                       errors |-> acc.errors]

\* A loop body that takes inStock from the In_stock flag alone.
ResolveProduct_InStockFlagOnly(acc, productId, stockResults, storeId) ==
    LET stockData == StockDataOf(stockResults, productId)
        unavailable(code) ==
            [availabilityMap |->
                 setAvailabilityForAllKeyTypes(acc.availabilityMap, productId,
                                               Unavailable(productId)),
             errors |-> Append(acc.errors, ProductError(productId, code))]
    IN  IF ~TruthyBody(stockData) \/ stockData.Store_stock_results.kind = "missing"
        THEN unavailable("NO_STOCK_DATA")
        ELSE IF stockData.Store_stock_results.kind = "malformed"
        THEN \* selectBestStore throws a TypeError, which has no code
             unavailable("undefined")
        ELSE LET selectedStore == selectBestStore(stockData.Store_stock_results.list, storeId)
             IN  IF selectedStore = undefined
                 THEN unavailable("NO_STORES")
                 ELSE [availabilityMap |->
                           setAvailabilityForAllKeyTypes(acc.availabilityMap, productId,
                               [productId |-> productId,
                                inStock |-> selectedStore.In_stock,
                                availableQuantity |-> selectedStore.Stock_level,
                                storeId |-> selectedStore.Store_id]),
                       errors |-> acc.errors]

\* One iteration of productIds.forEach in checkBatchAvailability.
ResolveProduct(acc, productId, stockResults, storeId) ==
    LET stockData == StockDataOf(stockResults, productId)
        unavailable(code) ==
            [availabilityMap |->
                 setAvailabilityForAllKeyTypes(acc.availabilityMap, productId,
                                               Unavailable(productId)),
             errors |-> Append(acc.errors, ProductError(productId, code))]
    IN  IF ~TruthyBody(stockData) \/ stockData.Store_stock_results.kind = "missing"
        THEN unavailable("NO_STOCK_DATA")
        ELSE IF stockData.Store_stock_results.kind = "malformed"
        THEN \* selectBestStore throws a TypeError, which has no code
             unavailable("undefined")
        ELSE LET selectedStore == selectBestStore(stockData.Store_stock_results.list, storeId)
             IN  IF selectedStore = undefined
                 THEN unavailable("NO_STORES")
                 ELSE [availabilityMap |->
                           setAvailabilityForAllKeyTypes(acc.availabilityMap, productId,
                               [productId |-> productId,
                                inStock |-> selectedStore.In_stock /\ selectedStore.Stock_level > 0,
                                availableQuantity |-> selectedStore.Stock_level,
                                storeId |-> selectedStore.Store_id]),
                       errors |-> acc.errors]

RECURSIVE ResolveLoop(_, _, _, _, _)
ResolveLoop(acc, productIds, stockResults, storeId, i) ==
    IF i > Len(productIds)
    THEN acc
    ELSE ResolveLoop(ResolveProduct(acc, productIds[i], stockResults, storeId),
                     productIds, stockResults, storeId, i + 1)

\* checkBatchAvailability from the return of checkBulkStoreStock on.
checkBatchAvailability(productIds, stockResults, storeId) ==
    ResolveLoop([availabilityMap |-> EmptyMap, errors |-> <<>>],
                productIds, stockResults, storeId, 1)

(***************************************************************************)
(* services/stock/product-selector.ts: substitution                        *)
(***************************************************************************)

EmptySelection ==
    [selectedProducts |-> <<>>, backupProductsUsed |-> <<>>, unavailableProducts |-> <<>>]

\* The loop without its break: the last usable backup wins.
RECURSIVE LastUsableBackup(_, _, _)
LastUsableBackup(backupIds, availabilityMap, i) ==
    IF i > Len(backupIds)
    THEN 0
    ELSE LET later == LastUsableBackup(backupIds, availabilityMap, i + 1)
         IN  IF later # 0
             THEN later
             ELSE IF isProductAvailable(getAvailability(availabilityMap, backupIds[i]))
                  THEN i
                  ELSE 0

\* The loop over backupIds (for ... of with break): the index of the first
\* backup whose record is usable, 0 when the loop ends without a hit.
RECURSIVE FirstUsableBackup(_, _, _)
FirstUsableBackup(backupIds, availabilityMap, i) ==
    IF i > Len(backupIds)
    THEN 0
    ELSE IF isProductAvailable(getAvailability(availabilityMap, backupIds[i]))
         THEN i
         ELSE FirstUsableBackup(backupIds, availabilityMap, i + 1)

\* The loop body without the return that ends a group once its primary is
\* selected: the backups are then examined as well.
SelectForGroup_NoReturn(acc, group, availabilityMap) ==
    LET primaryId == group.primaryId
        backupIds == group.backupIds
        primaryAvailability == getAvailability(availabilityMap, primaryId)
        primaryUsable == isProductAvailable(primaryAvailability)
        hit == FirstUsableBackup(backupIds, availabilityMap, 1)
        acc1 == IF primaryUsable /\ primaryAvailability # undefined
                THEN [acc EXCEPT !.selectedProducts =
                         Append(@, [productId |-> primaryId,
                                    availability |-> primaryAvailability])]
                ELSE acc
    IN  IF hit # 0
        THEN [acc1 EXCEPT
                 !.selectedProducts =
                     Append(@, [productId |-> backupIds[hit],
                                availability |->
                                    getAvailability(availabilityMap, backupIds[hit])]),
                 !.backupProductsUsed =
                     Append(@, [originalId |-> primaryId,
                                replacementId |-> backupIds[hit],
                                reason |-> IF primaryAvailability # undefined
                                           THEN "OUT_OF_STOCK"
                                           ELSE "PRIMARY_UNUSABLE"])]
        ELSE [acc1 EXCEPT !.unavailableProducts = Append(@, primaryId)]

\* The loop body with the two identifiers of the substitution record swapped.
SelectForGroup_SwappedRecord(acc, group, availabilityMap) ==
    LET primaryId == group.primaryId
        backupIds == group.backupIds
        primaryAvailability == getAvailability(availabilityMap, primaryId)
        primaryUsable == isProductAvailable(primaryAvailability)
        hit == FirstUsableBackup(backupIds, availabilityMap, 1)
    IN  IF primaryUsable /\ primaryAvailability # undefined
        THEN [acc EXCEPT !.selectedProducts =
                 Append(@, [productId |-> primaryId,
                            availability |-> primaryAvailability])]
        ELSE IF hit # 0
        THEN [acc EXCEPT
                 !.selectedProducts =
                     Append(@, [productId |-> backupIds[hit],
                                availability |->
                                    getAvailability(availabilityMap, backupIds[hit])]),
                 !.backupProductsUsed =
                     Append(@, [originalId |-> backupIds[hit],
                                replacementId |-> primaryId,
                                reason |-> IF primaryAvailability # undefined
                                           THEN "OUT_OF_STOCK"
                                           ELSE "PRIMARY_UNUSABLE"])]
        ELSE [acc EXCEPT !.unavailableProducts = Append(@, primaryId)]

\* A loop body whose substitution record always says OUT_OF_STOCK.
SelectForGroup_AlwaysOutOfStock(acc, group, availabilityMap) ==
    LET primaryId == group.primaryId
        backupIds == group.backupIds
        primaryAvailability == getAvailability(availabilityMap, primaryId)
        primaryUsable == isProductAvailable(primaryAvailability)
        hit == FirstUsableBackup(backupIds, availabilityMap, 1)
    IN  IF primaryUsable /\ primaryAvailability # undefined
        THEN [acc EXCEPT !.selectedProducts =
                 Append(@, [productId |-> primaryId,
                            availability |-> primaryAvailability])]
        ELSE IF hit # 0
        THEN [acc EXCEPT
                 !.selectedProducts =
                     Append(@, [productId |-> backupIds[hit],
                                availability |->
                                    getAvailability(availabilityMap, backupIds[hit])]),
                 !.backupProductsUsed =
                     Append(@, [originalId |-> primaryId,
                                replacementId |-> backupIds[hit],
                                reason |-> "OUT_OF_STOCK"])]
        ELSE [acc EXCEPT !.unavailableProducts = Append(@, primaryId)]

\* The body of backups.forEach: what one group adds to the three arrays.
SelectForGroup(acc, group, availabilityMap) ==
    LET primaryId == group.primaryId
        backupIds == group.backupIds
        primaryAvailability == getAvailability(availabilityMap, primaryId)
        primaryUsable == isProductAvailable(primaryAvailability)
        hit == FirstUsableBackup(backupIds, availabilityMap, 1)
    IN  IF primaryUsable /\ primaryAvailability # undefined
        THEN [acc EXCEPT !.selectedProducts =
                 Append(@, [productId |-> primaryId,
                            availability |-> primaryAvailability])]
        ELSE IF hit # 0
        THEN [acc EXCEPT
                 !.selectedProducts =
                     Append(@, [productId |-> backupIds[hit],
                                availability |->
                                    getAvailability(availabilityMap, backupIds[hit])]),
                 !.backupProductsUsed =
                     Append(@, [originalId |-> primaryId,
                                replacementId |-> backupIds[hit],
                                reason |-> IF primaryAvailability # undefined
                                           THEN "OUT_OF_STOCK"
                                           ELSE "PRIMARY_UNUSABLE"])]
        ELSE [acc EXCEPT !.unavailableProducts = Append(@, primaryId)]

RECURSIVE SelectionLoop(_, _, _, _)
SelectionLoop(acc, backups, availabilityMap, i) ==
    IF i > Len(backups)
    THEN acc
    ELSE SelectionLoop(SelectForGroup(acc, backups[i], availabilityMap),
                       backups, availabilityMap, i + 1)

\* A selection whose three arrays are kept from the call before.
performProductSelection_SharedArrays(backups, availabilityMap) ==
    SelectionLoop(selOut.result, backups, availabilityMap, 1)

performProductSelection(backups, availabilityMap) ==
    SelectionLoop(EmptySelection, backups, availabilityMap, 1)

(***************************************************************************)
(* services/stock/product-selector.ts: redirect and response               *)
(***************************************************************************)

generateProductUrl(tcin) == "https://www.target.com/p/-/A-" \o tcin

\* customUrl || longLink
Fallback(customUrl, longLink) == IF Truthy(customUrl) THEN customUrl.value ELSE longLink

\* The product page whenever allowPdp is not false, also for several products.
buildRedirectUrl_PdpForMany(selectionResult, longLink, customUrl, allowPdp) ==
    LET selectedProducts == selectionResult.selectedProducts
    IN  IF Len(selectedProducts) = 0
        THEN Fallback(customUrl, longLink)
        ELSE IF allowPdp # "false"
        THEN generateProductUrl(selectedProducts[1].productId)
        ELSE Fallback(customUrl, longLink)

\* allowPdp is "absent", "true" or "false"; allowPdp !== false.
buildRedirectUrl(selectionResult, longLink, customUrl, allowPdp) ==
    LET selectedProducts == selectionResult.selectedProducts
    IN  IF Len(selectedProducts) = 0
        THEN Fallback(customUrl, longLink)
        ELSE IF Len(selectedProducts) = 1 /\ allowPdp # "false"
        THEN generateProductUrl(selectedProducts[1].productId)
        ELSE IF Len(selectedProducts) > 1
        THEN Fallback(customUrl, longLink)
        ELSE Fallback(customUrl, longLink)

\* A type that is 'custom' whenever a customUrl was passed, empty or not.
determineCartUrlType_CustomWhenPassed(selectionResult, customUrl, allowPdp) ==
    IF Len(selectionResult.selectedProducts) = 0
    THEN (IF customUrl.defined THEN "custom" ELSE "longLink")
    ELSE IF Len(selectionResult.selectedProducts) = 1 /\ allowPdp # "false"
    THEN "pdp"
    ELSE (IF customUrl.defined THEN "custom" ELSE "longLink")

determineCartUrlType(selectionResult, customUrl, allowPdp) ==
    IF Len(selectionResult.selectedProducts) = 0
    THEN (IF Truthy(customUrl) THEN "custom" ELSE "longLink")
    ELSE IF Len(selectionResult.selectedProducts) = 1 /\ allowPdp # "false"
    THEN "pdp"
    ELSE (IF Truthy(customUrl) THEN "custom" ELSE "longLink")

\* fallbackApplied set only when every product is unavailable (FIXES.md, 5).
BuildResponse_FallbackOnlyWhenEmpty(request, selectionResult) ==
    LET finalCartUrlType == determineCartUrlType(selectionResult, request.customUrl,
                                                 request.allowPdp)
    IN  [redirectUrl |-> buildRedirectUrl(selectionResult, request.longLink,
                                          request.customUrl, request.allowPdp),
         backupsUsed |-> Len(selectionResult.backupProductsUsed) > 0,
         backupProducts |-> selectionResult.backupProductsUsed,
         allProductsUnavailable |-> Len(selectionResult.selectedProducts) = 0,
         cartUrlType |-> finalCartUrlType,
         storeIdAttached |-> NoString,
         cartOptionsSummary |->
             [mode |-> IF Truthy(request.cartUrlOptions.mode)
                       THEN request.cartUrlOptions.mode.value
                       ELSE "auto",
              includeStoreId |-> "never",
              fallbackApplied |-> Len(selectionResult.selectedProducts) = 0,
              finalType |-> finalCartUrlType]]

\* A response that reports allProductsUnavailable as soon as one group is
\* unavailable.
BuildResponse_AnyGroupUnavailable(request, selectionResult) ==
    LET redirectUrl == buildRedirectUrl(selectionResult, request.longLink,
                                        request.customUrl, request.allowPdp)
        allProductsUnavailable == Len(selectionResult.unavailableProducts) > 0
        finalCartUrlType == determineCartUrlType(selectionResult, request.customUrl,
                                                 request.allowPdp)
        requestedMode == IF Truthy(request.cartUrlOptions.mode)
                         THEN request.cartUrlOptions.mode.value
                         ELSE "auto"
        didFallback == finalCartUrlType # "pdp"
    IN  [redirectUrl |-> redirectUrl,
         backupsUsed |-> Len(selectionResult.backupProductsUsed) > 0,
         backupProducts |-> selectionResult.backupProductsUsed,
         allProductsUnavailable |-> allProductsUnavailable,
         cartUrlType |-> finalCartUrlType,
         storeIdAttached |-> NoString,
         cartOptionsSummary |->
             [mode |-> requestedMode,
              includeStoreId |-> "never",
              fallbackApplied |-> didFallback,
              finalType |-> finalCartUrlType]]

\* Steps 4 to 6 of selectAvailableProducts: the response built from the
\* selection result and the request.
\* A response that echoes the storeId and the includeStoreId of the request.
BuildResponse_EchoRequest(request, selectionResult) ==
    LET redirectUrl == buildRedirectUrl(selectionResult, request.longLink,
                                        request.customUrl, request.allowPdp)
        allProductsUnavailable == Len(selectionResult.selectedProducts) = 0
        finalCartUrlType == determineCartUrlType(selectionResult, request.customUrl,
                                                 request.allowPdp)
        requestedMode == IF Truthy(request.cartUrlOptions.mode)
                         THEN request.cartUrlOptions.mode.value
                         ELSE "auto"
        didFallback == finalCartUrlType # "pdp"
    IN  [redirectUrl |-> redirectUrl,
         backupsUsed |-> Len(selectionResult.backupProductsUsed) > 0,
         backupProducts |-> selectionResult.backupProductsUsed,
         allProductsUnavailable |-> allProductsUnavailable,
         cartUrlType |-> finalCartUrlType,
         storeIdAttached |-> request.storeId,
         cartOptionsSummary |->
             [mode |-> requestedMode,
              includeStoreId |-> IF Truthy(request.cartUrlOptions.includeStoreId)
                                THEN request.cartUrlOptions.includeStoreId.value
                                ELSE "never",
              fallbackApplied |-> didFallback,
              finalType |-> finalCartUrlType]]

BuildResponse(request, selectionResult) ==
    LET redirectUrl == buildRedirectUrl(selectionResult, request.longLink,
                                        request.customUrl, request.allowPdp)
        allProductsUnavailable == Len(selectionResult.selectedProducts) = 0
        finalCartUrlType == determineCartUrlType(selectionResult, request.customUrl,
                                                 request.allowPdp)
        requestedMode == IF Truthy(request.cartUrlOptions.mode)
                         THEN request.cartUrlOptions.mode.value
                         ELSE "auto"
        didFallback == finalCartUrlType # "pdp"
    IN  [redirectUrl |-> redirectUrl,
         backupsUsed |-> Len(selectionResult.backupProductsUsed) > 0,
         backupProducts |-> selectionResult.backupProductsUsed,
         allProductsUnavailable |-> allProductsUnavailable,
         cartUrlType |-> finalCartUrlType,
         storeIdAttached |-> NoString,
         cartOptionsSummary |->
             [mode |-> requestedMode,
              includeStoreId |-> "never",
              fallbackApplied |-> didFallback,
              finalType |-> finalCartUrlType]]

(***************************************************************************)
(* State shared by the specifications                                      *)
(***************************************************************************)

\* The resolutions (calls of selectAvailableProducts) that can be under way.
Slots == {1, 2}

NoRequest == [backups |-> <<>>]
NoBatch == [productIds |-> <<>>, startedAt |-> 0, after |-> {}]
NoResponse == [redirectUrl |-> "", pending |-> TRUE]
NoOutcome ==
    [raised |-> FALSE, availabilityMap |-> EmptyMap, errors |-> <<>>,
     selection |-> EmptySelection, response |-> NoResponse]

\* No resolution under way, both caches empty.
FlowIdle ==
    /\ clock = 0
    /\ stockCache = EmptyMap
    /\ productCache = EmptyMap
    /\ stored = [stock |-> EmptyMap, product |-> EmptyMap]
    /\ req = [r \in Slots |-> NoRequest]
    /\ pc = [r \in Slots |-> "idle"]
    /\ batch = [r \in Slots |-> NoBatch]
    /\ call = [r \in Slots |-> EmptyMap]
    /\ out = [r \in Slots |-> NoOutcome]

\* The selection pipeline is not run on its own.
SelIdle ==
    /\ selIn = [request |-> NoRequest, availabilityMap |-> EmptyMap]
    /\ selOut = [phase |-> "off", result |-> EmptySelection, response |-> NoResponse]

(***************************************************************************)
(* The selection pipeline on its own: performProductSelection and the      *)
(* response builder applied to a request and an availability map.          *)
(***************************************************************************)

\* Bound on the identifiers one request names (primaries and backups together).
MaxRequestIds == 3

\* The groups that name k identifiers: a primary and k - 1 backups.
GroupsOfSize(k) ==
    {[primaryId |-> ids[1], backupIds |-> Tail(ids)] : ids \in [1..k -> TCINS]}

\* The lists of groups that name n identifiers in all.
RECURSIVE GroupListsOfSize(_)
GroupListsOfSize(n) ==
    IF n = 0
    THEN {<<>>}
    ELSE UNION {{<<g>> \o rest : g \in GroupsOfSize(k), rest \in GroupListsOfSize(n - k)} :
                   k \in 1..n}

GroupLists == UNION {GroupListsOfSize(n) : n \in 1..MaxRequestIds}

\* The (inStock, availableQuantity) pairs of the records in the maps.
StockShapes ==
    {[inStock |-> TRUE, availableQuantity |-> 1],
     [inStock |-> FALSE, availableQuantity |-> 0],
     [inStock |-> FALSE, availableQuantity |-> 1],
     [inStock |-> TRUE, availableQuantity |-> 0]}

\* The record of that shape under a key; the record under a canonical key
\* that is no TCIN belongs to the TCIN it is the canonical form of.
RecordFor(key, shape) ==
    [productId |-> IF key \in TCINS
                   THEN key
                   ELSE CHOOSE t \in TCINS : NumberToString(t) = key,
     inStock |-> shape.inStock,
     availableQuantity |-> shape.availableQuantity]

\* The identifiers the groups name.
RequestIds(backups) ==
    UNION {{backups[i].primaryId}
               \cup {backups[i].backupIds[j] : j \in 1..Len(backups[i].backupIds)} :
           i \in 1..Len(backups)}

\* The keys the lookups of a request can read.
MapKeys(backups) ==
    RequestIds(backups) \cup {NumberToString(p) : p \in RequestIds(backups)}

\* Every map over these keys: each key absent or bound to a record.
AvailabilityMaps(backups) ==
    UNION {{[k \in K |-> RecordFor(k, shapes[k])] : shapes \in [K -> StockShapes]} :
              K \in SUBSET MapKeys(backups)}

LongLink == "https://www.target.com/long"
CustomUrls == {NoString, Str(""), Str("https://incarts.example/custom")}
AllowPdps == {"absent", "true", "false"}
CartUrlOptions ==
    {[mode |-> NoString, includeStoreId |-> NoString],
     [mode |-> Str("items"), includeStoreId |-> Str("always")]}

DefaultRequest(backups) ==
    [backups |-> backups, longLink |-> LongLink, customUrl |-> NoString,
     allowPdp |-> "absent", cartUrlOptions |-> [mode |-> NoString, includeStoreId |-> NoString]]

SelInit ==
    /\ \E gs \in GroupLists : \E m \in AvailabilityMaps(gs) :
           selIn = [request |-> DefaultRequest(gs), availabilityMap |-> m]
    /\ selOut = [phase |-> "input", result |-> EmptySelection, response |-> NoResponse]
    /\ FlowIdle

\* performProductSelection, then steps 4 to 6 of selectAvailableProducts.
SelRun ==
    /\ selOut.phase = "input"
    /\ LET result == performProductSelection(selIn.request.backups, selIn.availabilityMap)
       IN  selOut' = [phase |-> "done", result |-> result,
                      response |-> BuildResponse(selIn.request, result)]
    /\ UNCHANGED selIn
    /\ UNCHANGED flowVars

SelNext == SelRun

SpecSel == SelInit /\ [][SelNext]_vars

\* The redirect rules under every request option, on maps whose records are
\* all usable (what the rules read is how many products were selected).
UsableMaps(backups) ==
    {[k \in K |-> RecordFor(k, [inStock |-> TRUE, availableQuantity |-> 1])] :
        K \in SUBSET RequestIds(backups)}

UrlInit ==
    /\ \E gs \in GroupLists : \E m \in UsableMaps(gs) :
         \E c \in CustomUrls, a \in AllowPdps, o \in CartUrlOptions :
           selIn = [request |-> [backups |-> gs, longLink |-> LongLink, customUrl |-> c,
                                 allowPdp |-> a, cartUrlOptions |-> o],
                    availabilityMap |-> m]
    /\ selOut = [phase |-> "input", result |-> EmptySelection, response |-> NoResponse]
    /\ FlowIdle

SpecUrl == UrlInit /\ [][SelNext]_vars

(***************************************************************************)
(* selectAvailableProducts: a resolution from the request to the response  *)
(***************************************************************************)

\* allIds.add(id) on the insertion-ordered Set of extractAllProductIds.
SetAdd(allIds, id) ==
    IF \E i \in 1..Len(allIds) : allIds[i] = id THEN allIds ELSE Append(allIds, id)

RECURSIVE AddAll(_, _, _)
AddAll(allIds, ids, i) ==
    IF i > Len(ids) THEN allIds ELSE AddAll(SetAdd(allIds, ids[i]), ids, i + 1)

RECURSIVE AddGroups(_, _, _)
AddGroups(allIds, backups, i) ==
    IF i > Len(backups)
    THEN allIds
    ELSE AddGroups(AddAll(SetAdd(allIds, backups[i].primaryId), backups[i].backupIds, 1),
                   backups, i + 1)

\* An extraction that collects the backups of every group and no primary.
extractAllProductIds_BackupsOnly(backups) ==
    LET withBackups == SelectSeq(backups, LAMBDA group : Len(group.backupIds) > 0)
    IN  AddGroups(<<>>,
                  [i \in 1..Len(withBackups) |->
                      [primaryId |-> withBackups[i].backupIds[1],
                       backupIds |-> withBackups[i].backupIds]],
                  1)

extractAllProductIds(backups) == AddGroups(<<>>, backups, 1)

\* The entry of call for one tcin: the promise of checkStoreStock, and as
\* history the upstream answer it was settled with.
CallOf(promise, answer) == [promise |-> promise, answer |-> answer]

\* A map that starts the checkStoreStock of the first identifier only.
checkBulkStoreStock_Map_FirstOnly(acc, tcins, zipCode, storeId, now, i) ==
    IF Len(tcins) = 0
    THEN acc
    ELSE [cache |-> checkStoreStock_CacheAfterBegin(acc.cache, tcins[1], zipCode,
                                                    storeId, FALSE, now),
          calls |-> MapSet(acc.calls, tcins[1],
                           CallOf(checkStoreStock_Begin(acc.cache, tcins[1], zipCode,
                                                        storeId, FALSE, now),
                                  undefined))]

\* tcins.map(async ...) of checkBulkStoreStock: every checkStoreStock runs up
\* to its await, in the order of tcins.
RECURSIVE checkBulkStoreStock_Map(_, _, _, _, _, _)
checkBulkStoreStock_Map(acc, tcins, zipCode, storeId, now, i) ==
    IF i > Len(tcins)
    THEN acc
    ELSE LET tcin == tcins[i]
             promise == checkStoreStock_Begin(acc.cache, tcin, zipCode, storeId, FALSE, now)
         IN  checkBulkStoreStock_Map(
                 [cache |-> checkStoreStock_CacheAfterBegin(acc.cache, tcin, zipCode,
                                                            storeId, FALSE, now),
                  calls |-> MapSet(acc.calls, tcin, CallOf(promise, undefined))],
                 tcins, zipCode, storeId, now, i + 1)

\* A join that waits until every lookup has returned a body.
PromiseAllSettled_NeedsEveryBody(calls) ==
    \A tcin \in DOMAIN calls : calls[tcin].promise.state = "fulfilled"

\* await Promise.all(promises) of checkBulkStoreStock goes on once every
\* wrapper has settled, that is once no checkStoreStock is pending.
PromiseAllSettled(calls) ==
    \A tcin \in DOMAIN calls : calls[tcin].promise.state # "pending"

\* smartProductSelect calls selectAvailableProducts, which runs up to the
\* await of Promise.all in checkBulkStoreStock. A new resolution is given
\* the first slot not in use.
Start(r, request) ==
    /\ pc[r] = "idle"
    /\ \A q \in Slots : q < r => pc[q] # "idle"
    /\ LET productIds == extractAllProductIds(request.backups)
           begun == checkBulkStoreStock_Map([cache |-> stockCache, calls |-> EmptyMap],
                                            productIds, request.zipCode, request.storeId,
                                            clock, 1)
       IN  /\ stockCache' = begun.cache
           /\ call' = [call EXCEPT ![r] = begun.calls]
           /\ batch' = [batch EXCEPT ![r] =
                           [productIds |-> productIds, startedAt |-> clock,
                            after |-> {a \in Slots : pc[a] = "done"}]]
    /\ req' = [req EXCEPT ![r] = request]
    /\ pc' = [pc EXCEPT ![r] = "waiting"]
    /\ UNCHANGED <<clock, productCache, stored, out, selVars>>

\* The upstream request of one checkStoreStock is answered (or times out):
\* checkStoreStock resumes after its await and settles.
Respond(r, tcin, answer) ==
    /\ pc[r] = "waiting"
    /\ tcin \in DOMAIN call[r]
    /\ call[r][tcin].promise.state = "pending"
    /\ stockCache' = checkStoreStock_CacheAfterEnd(stockCache, tcin, req[r].zipCode,
                                                   req[r].storeId, answer, clock)
    /\ stored' = IF answer.ok
                 THEN [stored EXCEPT !.stock =
                          MapSet(@, generateProductStockCacheKey(req[r].zipCode, tcin,
                                                                 req[r].storeId),
                                 [at |-> clock, ttl |-> NoTtl, value |-> answer.body])]
                 ELSE stored
    /\ call' = [call EXCEPT ![r][tcin] = CallOf(checkStoreStock_End(answer), answer)]
    /\ UNCHANGED <<clock, productCache, req, pc, batch, out, selVars>>

\* Promise.all settles: checkBulkStoreStock, checkBatchAvailability and
\* selectAvailableProducts run to their end.
Finish(r) ==
    /\ pc[r] = "waiting"
    /\ PromiseAllSettled(call[r])
    /\ LET productIds == batch[r].productIds
           join == checkBulkStoreStock_Join(productIds,
                                            [tcin \in DOMAIN call[r] |-> call[r][tcin].promise])
           availabilityResult == checkBatchAvailability(productIds, join.stockMap,
                                                        req[r].storeId)
           selectionResult == performProductSelection(req[r].backups,
                                                      availabilityResult.availabilityMap)
       IN  IF join.rejected
           THEN /\ pc' = [pc EXCEPT ![r] = "raised"]
                /\ out' = [out EXCEPT ![r] = [NoOutcome EXCEPT !.raised = TRUE]]
           ELSE /\ pc' = [pc EXCEPT ![r] = "done"]
                /\ out' = [out EXCEPT ![r] =
                              [raised |-> FALSE,
                               availabilityMap |-> availabilityResult.availabilityMap,
                               errors |-> availabilityResult.errors,
                               selection |-> selectionResult,
                               response |-> BuildResponse(req[r], selectionResult)]]
    /\ UNCHANGED <<clock, stockCache, productCache, stored, req, batch, call, selVars>>

\* The instants the clock is observed at: the start, the default expiry of
\* an entry stored at the start in either cache, and the instants right
\* after it.
MaxSkew == 1
Instants ==
    {0} \cup {ttl * 1000 + k : ttl \in {STOCK_CACHE_TTL, PRODUCT_CACHE_TTL},
                               k \in 0..MaxSkew}

\* The instants that matter to the stock cache alone.
StockInstants == {t \in Instants : t <= STOCK_CACHE_TTL * 1000 + MaxSkew}

\* Time passes, up to a later one of the instants.
Tick(instants) ==
    /\ \E t \in instants : t > clock /\ clock' = t
    /\ UNCHANGED <<stockCache, productCache, stored, req, pc, batch, call, out, selVars>>

StoreAt(id, inStock, level) == [Store_id |-> id, In_stock |-> inStock, Stock_level |-> level]

ZipCode == "04457"
StoreIds == {NoString, Str("1771")}

FlowRequest(backups, customUrl, storeId) ==
    [backups |-> backups, longLink |-> LongLink, customUrl |-> customUrl,
     allowPdp |-> "absent", cartUrlOptions |-> [mode |-> NoString, includeStoreId |-> NoString],
     zipCode |-> ZipCode, storeId |-> storeId]

(***************************************************************************)
(* One resolution on an empty cache, under every upstream answer           *)
(***************************************************************************)

MaxBatchIds == 2

\* Requests of up to MaxBatchIds identifiers, with and without a storeId;
\* the customUrl, which only the redirect of the response depends on, is
\* given in requests of one or two identifiers.
BatchRequests ==
    {FlowRequest(gs, c, st) :
        gs \in UNION {GroupListsOfSize(n) : n \in (1..2) \cap (1..MaxBatchIds)},
        c \in {NoString, Str("https://incarts.example/custom")},
        st \in StoreIds}
        \cup {FlowRequest(gs, NoString, st) :
                  gs \in UNION {GroupListsOfSize(n) : n \in 3..MaxBatchIds},
                  st \in StoreIds}

\* Not found, rate limited, unauthorized, a server error, no response (a
\* transport error or the timeout), and the shapes of a 200 body.
BatchAnswers ==
    {Failed(404, ""), Failed(429, ""), Failed(401, ""), Failed(500, ""), Failed(0, ""),
     Ok(EmptyBody), Ok(Body(NoResults)), Ok(Body(Malformed)), Ok(Body(Results(<<>>))),
     Ok(Body(Results(<<StoreAt("1771", TRUE, 2)>>))),
     Ok(Body(Results(<<StoreAt("2000", FALSE, 0)>>))),
     Ok(Body(Results(<<StoreAt("1771", FALSE, 0), StoreAt("2000", TRUE, 3)>>)))}

BatchInit == FlowIdle /\ SelIdle

BatchNext ==
    \/ \E request \in BatchRequests : Start(1, request)
    \/ \E tcin \in TCINS, answer \in BatchAnswers : Respond(1, tcin, answer)
    \/ Finish(1)

SpecBatch == BatchInit /\ [][BatchNext]_vars

(***************************************************************************)
(* One resolution whose upstream calls all settle                          *)
(***************************************************************************)

\* Not found, no response (a transport error or the timeout of the client),
\* and a body in stock and out of stock.
LiveAnswers ==
    {Failed(404, ""), Failed(0, ""),
     Ok(Body(Results(<<StoreAt("1771", TRUE, 2)>>))),
     Ok(Body(Results(<<StoreAt("1771", FALSE, 0)>>)))}

LiveNext ==
    \/ \E request \in BatchRequests : Start(1, request)
    \/ \E tcin \in TCINS, answer \in LiveAnswers : Respond(1, tcin, answer)
    \/ Finish(1)

\* Finish(r) as a step of pc: the continuation of Promise.all runs, and the
\* resolution returns or raises. No other action takes pc[r] off "waiting".
JoinReturns(r) ==
    /\ pc[r] = "waiting"
    /\ PromiseAllSettled(call[r])
    /\ pc' \in {[pc EXCEPT ![r] = "done"], [pc EXCEPT ![r] = "raised"]}

\* Every request sent by axios settles, with a response, an error or the
\* timeout of the client, and the event loop runs the continuation of
\* Promise.all once it has settled.
LiveFairness ==
    /\ WF_vars(\E tcin \in TCINS, answer \in LiveAnswers : Respond(1, tcin, answer))
    /\ WF_pc(JoinReturns(1))

SpecLive == BatchInit /\ [][LiveNext]_vars /\ LiveFairness

(***************************************************************************)
(* Two resolutions sharing the stock cache while time passes               *)
(***************************************************************************)

Requests ==
    {FlowRequest(<<[primaryId |-> "00000123", backupIds |-> <<>>]>>, NoString, NoString),
     FlowRequest(<<[primaryId |-> "00000123", backupIds |-> <<"12345678">>]>>,
                 NoString, NoString)}

Answers ==
    {Failed(404, ""), Ok(EmptyBody),
     Ok(Body(Results(<<StoreAt("1771", TRUE, 2)>>))),
     Ok(Body(Results(<<StoreAt("1771", FALSE, 0)>>)))}

Init == FlowIdle /\ SelIdle

Next ==
    \/ \E r \in Slots, request \in Requests : Start(r, request)
    \/ \E r \in Slots, tcin \in TCINS, answer \in Answers : Respond(r, tcin, answer)
    \/ \E r \in Slots : Finish(r)
    \/ Tick(StockInstants)

Spec == Init /\ [][Next]_vars

(***************************************************************************)
(* The two caches under every use of the helpers of utils/cache.ts         *)
(***************************************************************************)

Namespaces == {"stock", "product"}

CacheOf(ns) == IF ns = "stock" THEN stockCache ELSE productCache

\* The stdTTL option the instance was constructed with.
StdTTL(ns) == IF ns = "stock" THEN STOCK_CACHE_TTL ELSE PRODUCT_CACHE_TTL

\* The data of one instance changes, the other instance is left alone.
CacheBecomes(ns, data) ==
    IF ns = "stock"
    THEN stockCache' = data /\ UNCHANGED productCache
    ELSE productCache' = data /\ UNCHANGED stockCache

CacheKeys(ns) ==
    IF ns = "stock"
    THEN {generateProductStockCacheKey(ZipCode, "12345678", NoString)}
    ELSE {generateProductCacheKey("12345678")}

CacheValues(ns) ==
    IF ns = "stock"
    THEN {Body(Results(<<StoreAt("1771", TRUE, 2)>>)), Body(NoResults)}
    ELSE {[title |-> "Product"]}

\* The ttl argument: omitted, 0 (never expire) or one second.
Ttls == {NoTtl, <<0>>, <<1>>}

\* setCachedValue(cache, key, value, ttl)
CacheSet(ns, key, value, ttl) ==
    /\ CacheBecomes(ns, setCachedValue(CacheOf(ns), key, value, ttl, clock, StdTTL(ns)))
    /\ stored' = [stored EXCEPT ![ns] =
                     MapSet(@, key, [at |-> clock, ttl |-> ttl, value |-> value])]
    /\ UNCHANGED <<clock, req, pc, batch, call, out, selVars>>

\* getCachedValue(cache, key): reading a stale entry deletes it.
CacheGet(ns, key) ==
    /\ CacheBecomes(ns, NodeCacheAfterGet(CacheOf(ns), key, clock))
    /\ UNCHANGED <<clock, stored, req, pc, batch, call, out, selVars>>

\* The timer of the instance fires.
CacheCheck(ns) ==
    /\ CacheBecomes(ns, NodeCacheCheckData(CacheOf(ns), clock))
    /\ UNCHANGED <<clock, stored, req, pc, batch, call, out, selVars>>

\* deleteCachedValue(cache, key)
CacheDelete(ns, key) ==
    /\ CacheBecomes(ns, NodeCacheDel(CacheOf(ns), key))
    /\ stored' = [stored EXCEPT ![ns] = NodeCacheDel(@, key)]
    /\ UNCHANGED <<clock, req, pc, batch, call, out, selVars>>

\* clearCache(cache)
CacheClear(ns) ==
    /\ CacheBecomes(ns, EmptyMap)
    /\ stored' = [stored EXCEPT ![ns] = EmptyMap]
    /\ UNCHANGED <<clock, req, pc, batch, call, out, selVars>>

CacheInit == FlowIdle /\ SelIdle

CacheNext ==
    \/ \E ns \in Namespaces : \E key \in CacheKeys(ns), value \in CacheValues(ns), ttl \in Ttls :
           CacheSet(ns, key, value, ttl)
    \/ \E ns \in Namespaces : \E key \in CacheKeys(ns) : CacheGet(ns, key)
    \/ \E ns \in Namespaces : CacheCheck(ns)
    \/ \E ns \in Namespaces : \E key \in CacheKeys(ns) : CacheDelete(ns, key)
    \/ \E ns \in Namespaces : CacheClear(ns)
    \/ Tick(Instants)

SpecCache == CacheInit /\ [][CacheNext]_vars

(***************************************************************************)
(* The resolution of one identifier on its own: selectBestStore and one    *)
(* iteration of checkBatchAvailability on the stock data of a lookup       *)
(***************************************************************************)

MaxStores == 2

\* Upstream stores: two store ids, either flag, a quantity that is
\* positive, zero or (out of contract) negative.
StoreUniverse ==
    {StoreAt(id, inStock, level) :
        id \in {"1771", "2000"}, inStock \in BOOLEAN, level \in {-1, 0, 2}}

RECURSIVE StoreListsOfLen(_)
StoreListsOfLen(n) ==
    IF n = 0
    THEN {<<>>}
    ELSE {Append(list, store) : list \in StoreListsOfLen(n - 1), store \in StoreUniverse}

\* What a lookup leaves for an identifier: nothing (it failed), or a body.
StockDatas ==
    {undefined, EmptyBody, Body(NoResults), Body(Malformed)}
        \cup {Body(Results(list)) : list \in UNION {StoreListsOfLen(n) : n \in 0..MaxStores}}

\* The storeId of the request: absent, empty, a listed store, an unknown store.
PreferredStoreIds == {NoString, Str(""), Str("1771"), Str("9999")}

StoreInit ==
    /\ \E productId \in {"12345678", "00000123"}, stockData \in StockDatas,
          storeId \in PreferredStoreIds :
           selIn = [productId |-> productId, stockData |-> stockData, storeId |-> storeId]
    /\ selOut = [phase |-> "lookup", store |-> undefined,
                 result |-> [availabilityMap |-> EmptyMap, errors |-> <<>>]]
    /\ FlowIdle

\* The stock map of checkBulkStoreStock for the one identifier, then the
\* iteration of checkBatchAvailability for it.
StoreRun ==
    /\ selOut.phase = "lookup"
    /\ LET stockResults == BuildStockMap(EmptyMap,
                                         <<BulkEntry(selIn.productId,
                                                     [stock |-> selIn.stockData,
                                                      state |-> "fulfilled"])>>, 1)
           stockData == StockDataOf(stockResults, selIn.productId)
           store == IF TruthyBody(stockData) /\ stockData.Store_stock_results.kind = "array"
                    THEN selectBestStore(stockData.Store_stock_results.list, selIn.storeId)
                    ELSE undefined
       IN  selOut' = [phase |-> "resolved", store |-> store,
                      result |-> ResolveProduct([availabilityMap |-> EmptyMap,
                                                 errors |-> <<>>],
                                                selIn.productId, stockResults,
                                                selIn.storeId)]
    /\ UNCHANGED selIn
    /\ UNCHANGED flowVars

StoreNext == StoreRun

SpecStore == StoreInit /\ [][StoreNext]_vars

(***************************************************************************)
(* The stock cache key on its own: generateProductStockCacheKey on the     *)
(* arguments of two checkStoreStock calls                                  *)
(***************************************************************************)

ZipCodes == {"04457", "90210"}

\* storeId as the controller accepts it: absent, or any string.
KeyStoreIds == {NoString, Str(""), Str("1771"), Str("2000"), Str("undefined")}

LookupArguments ==
    {[tcin |-> tcin, zipCode |-> zipCode, storeId |-> storeId] :
        tcin \in {"12345678", "87654321"}, zipCode \in ZipCodes, storeId \in KeyStoreIds}

\* params of checkStoreStock: store_id is sent only for a truthy storeId.
StoreStockParams(lookup) ==
    [tcin |-> lookup.tcin,
     store_stock_zipcode |-> lookup.zipCode,
     store_id |-> IF Truthy(lookup.storeId) THEN lookup.storeId ELSE NoString]

KeyInit ==
    /\ \E a \in LookupArguments, b \in LookupArguments : selIn = [a |-> a, b |-> b]
    /\ selOut = [phase |-> "arguments", a |-> "", b |-> ""]
    /\ FlowIdle

KeyRun ==
    /\ selOut.phase = "arguments"
    /\ selOut' = [phase |-> "keyed",
                  a |-> generateProductStockCacheKey(selIn.a.zipCode, selIn.a.tcin,
                                                     selIn.a.storeId),
                  b |-> generateProductStockCacheKey(selIn.b.zipCode, selIn.b.tcin,
                                                     selIn.b.storeId)]
    /\ UNCHANGED selIn
    /\ UNCHANGED flowVars

KeyNext == KeyRun

SpecKey == KeyInit /\ [][KeyNext]_vars

(***************************************************************************)
(* checkBatchAvailability called on its own with a list of productIds, as  *)
(* its exported signature allows: identifiers of any form, repeated or not *)
(***************************************************************************)

MaxDirectIds == 2

\* Two identifiers of one numeric value, and an identifier of another.
DirectIds == {"0123", "123", "12345678"}

DirectProductIds == UNION {[1..n -> DirectIds] : n \in 1..MaxDirectIds}

DirectAnswers ==
    {Failed(404, ""), Failed(429, ""),
     Ok(Body(Results(<<StoreAt("1771", TRUE, 2)>>))),
     Ok(Body(Results(<<StoreAt("1771", FALSE, 0)>>)))}

\* tcins.map(async ...) of checkBulkStoreStock, position by position: every
\* checkStoreStock runs up to its await.
RECURSIVE checkBulkStoreStock_MapAll(_, _, _, _, _, _)
checkBulkStoreStock_MapAll(acc, tcins, zipCode, storeId, now, i) ==
    IF i > Len(tcins)
    THEN acc
    ELSE checkBulkStoreStock_MapAll(
             [cache |-> checkStoreStock_CacheAfterBegin(acc.cache, tcins[i], zipCode,
                                                        storeId, FALSE, now),
              calls |-> Append(acc.calls,
                               CallOf(checkStoreStock_Begin(acc.cache, tcins[i], zipCode,
                                                            storeId, FALSE, now),
                                      undefined))],
             tcins, zipCode, storeId, now, i + 1)

\* checkBulkStoreStock from the join on, position by position.
checkBulkStoreStock_JoinAll(tcins, promises) ==
    BuildStockMap(EmptyMap, [i \in 1..Len(tcins) |-> BulkEntry(tcins[i], promises[i])], 1)

DirectInit ==
    /\ \E productIds \in DirectProductIds :
           selIn = [productIds |-> productIds, zipCode |-> ZipCode, storeId |-> NoString]
    /\ selOut = [phase |-> "called", calls |-> <<>>,
                 result |-> [availabilityMap |-> EmptyMap, errors |-> <<>>]]
    /\ FlowIdle

\* checkBatchAvailability up to the await of Promise.all in checkBulkStoreStock.
DirectStart ==
    /\ selOut.phase = "called"
    /\ LET begun == checkBulkStoreStock_MapAll([cache |-> stockCache, calls |-> <<>>],
                                               selIn.productIds, selIn.zipCode,
                                               selIn.storeId, clock, 1)
       IN  /\ stockCache' = begun.cache
           /\ selOut' = [selOut EXCEPT !.phase = "waiting", !.calls = begun.calls]
    /\ UNCHANGED <<selIn, clock, productCache, stored, req, pc, batch, call, out>>

\* The upstream request of the checkStoreStock at position i is answered.
DirectRespond(i, answer) ==
    /\ selOut.phase = "waiting"
    /\ i \in 1..Len(selOut.calls)
    /\ selOut.calls[i].promise.state = "pending"
    /\ stockCache' = checkStoreStock_CacheAfterEnd(stockCache, selIn.productIds[i],
                                                   selIn.zipCode, selIn.storeId, answer,
                                                   clock)
    /\ stored' = IF answer.ok
                 THEN [stored EXCEPT !.stock =
                          MapSet(@, generateProductStockCacheKey(selIn.zipCode,
                                                                 selIn.productIds[i],
                                                                 selIn.storeId),
                                 [at |-> clock, ttl |-> NoTtl, value |-> answer.body])]
                 ELSE stored
    /\ selOut' = [selOut EXCEPT !.calls[i] = CallOf(checkStoreStock_End(answer), answer)]
    /\ UNCHANGED <<selIn, clock, productCache, req, pc, batch, call, out>>

\* Promise.all settles: checkBulkStoreStock and checkBatchAvailability run to
\* their end.
DirectFinish ==
    /\ selOut.phase = "waiting"
    /\ \A i \in 1..Len(selOut.calls) : selOut.calls[i].promise.state # "pending"
    /\ LET stockResults ==
               checkBulkStoreStock_JoinAll(selIn.productIds,
                                           [i \in 1..Len(selOut.calls) |->
                                               selOut.calls[i].promise])
       IN  selOut' = [selOut EXCEPT !.phase = "returned",
                                    !.result = checkBatchAvailability(selIn.productIds,
                                                                      stockResults,
                                                                      selIn.storeId)]
    /\ UNCHANGED selIn
    /\ UNCHANGED flowVars

DirectNext ==
    \/ DirectStart
    \/ \E i \in 1..MaxDirectIds, answer \in DirectAnswers : DirectRespond(i, answer)
    \/ DirectFinish

SpecDirect == DirectInit /\ [][DirectNext]_vars

(***************************************************************************)
(* The response under every storeId and store-id option of the request     *)
(***************************************************************************)

IncludeStoreIds == {NoString, Str("always"), Str("auto"), Str("never")}

OptionsInit ==
    /\ \E gs \in GroupListsOfSize(1) \cup GroupListsOfSize(2) : \E m \in UsableMaps(gs) :
         \E c \in {NoString, Str("https://incarts.example/custom")}, a \in AllowPdps,
            st \in StoreIds, inc \in IncludeStoreIds :
           selIn = [request |-> [backups |-> gs, longLink |-> LongLink, customUrl |-> c,
                                 allowPdp |-> a,
                                 cartUrlOptions |-> [mode |-> NoString,
                                                     includeStoreId |-> inc],
                                 zipCode |-> ZipCode, storeId |-> st],
                    availabilityMap |-> m]
    /\ selOut = [phase |-> "input", result |-> EmptySelection, response |-> NoResponse]
    /\ FlowIdle

SpecOptions == OptionsInit /\ [][SelNext]_vars

(***************************************************************************)
(* performProductSelection called several times in a row                   *)
(***************************************************************************)

MaxCalls == 2

\* Arguments of a call: groups of two identifiers in all, and a map in which
\* some of them are usable.
SelectionArguments ==
    UNION {{[backups |-> gs, availabilityMap |-> m] : m \in UsableMaps(gs)} :
              gs \in {g \in GroupListsOfSize(2) :
                         RequestIds(g) \subseteq {"12345678", "87654321"}}}

CallsInit ==
    /\ selIn = [backups |-> <<>>, availabilityMap |-> EmptyMap]
    /\ selOut = [phase |-> "calls", result |-> EmptySelection, history |-> <<>>]
    /\ FlowIdle

\* One call: selIn holds the arguments as the call leaves them, selOut the
\* returned result, and as history the arguments and result of every call.
CallSelection(arguments) ==
    /\ selOut.phase = "calls"
    /\ Len(selOut.history) < MaxCalls
    /\ LET result == performProductSelection(arguments.backups, arguments.availabilityMap)
       IN  selOut' = [selOut EXCEPT !.result = result,
                                    !.history = Append(@, [arguments |-> arguments,
                                                           result |-> result])]
    /\ selIn' = arguments
    /\ UNCHANGED flowVars

CallsNext == \E arguments \in SelectionArguments : CallSelection(arguments)

SpecCalls == CallsInit /\ [][CallsNext]_vars

(***************************************************************************)
(* Claims on the selection pipeline                                        *)
(***************************************************************************)

\* The record of an identifier in a map: the entry under the identifier as
\* written, else the entry under its canonical numeric string.
RecordOf(m, id) ==
    IF id \in DOMAIN m THEN m[id]
    ELSE IF NumberToString(id) \in DOMAIN m THEN m[NumberToString(id)]
    ELSE undefined

UsableRecord(r) == r # undefined /\ r.inStock /\ r.availableQuantity > 0

Candidates(g) == <<g.primaryId>> \o g.backupIds

UsableIndexes(g, m) ==
    {i \in 1..Len(Candidates(g)) : UsableRecord(RecordOf(m, Candidates(g)[i]))}

Least(S) == CHOOSE i \in S : \A j \in S : i <= j

\* The identifiers the groups gs must select, in group order.
RECURSIVE ExpectedSelected(_, _)
ExpectedSelected(gs, m) ==
    IF gs = <<>>
    THEN <<>>
    ELSE LET g == Head(gs)
         IN  (IF UsableIndexes(g, m) = {}
              THEN <<>>
              ELSE <<Candidates(g)[Least(UsableIndexes(g, m))]>>)
             \o ExpectedSelected(Tail(gs), m)

\* backupIds without its repeated entries (first occurrences kept).
RECURSIVE WithoutDuplicates(_)
WithoutDuplicates(ids) ==
    IF ids = <<>>
    THEN <<>>
    ELSE LET front == WithoutDuplicates(SubSeq(ids, 1, Len(ids) - 1))
             last == ids[Len(ids)]
         IN  IF \E i \in 1..Len(front) : front[i] = last
             THEN front
             ELSE Append(front, last)

SelectedIds(result) ==
    [i \in 1..Len(result.selectedProducts) |-> result.selectedProducts[i].productId]

SelDone == selOut.phase = "done"

\* C1: every group selects the first element of <<primaryId>> \o backupIds
\* whose record is in stock with a positive quantity, whatever follows that
\* element in the list and whether or not later records exist; repeating
\* identifiers in backupIds changes nothing.
C1_FirstUsableCandidate ==
    SelDone =>
        LET gs == selIn.request.backups
            m == selIn.availabilityMap
        IN  /\ SelectedIds(selOut.result) = ExpectedSelected(gs, m)
            /\ \A i \in 1..Len(selOut.result.selectedProducts) :
                   selOut.result.selectedProducts[i].availability =
                       RecordOf(m, selOut.result.selectedProducts[i].productId)
            /\ performProductSelection(
                   [i \in 1..Len(gs) |->
                       [gs[i] EXCEPT !.backupIds = WithoutDuplicates(@)]], m)
               = selOut.result

\* C1 witness: the primary has an unusable record, two different backups
\* are both usable, and the first of them is the one selected.
C1_Witness ==
    /\ SelDone
    /\ Len(selIn.request.backups) = 1
    /\ LET g == selIn.request.backups[1]
           m == selIn.availabilityMap
       IN  /\ Len(g.backupIds) = 2
           /\ g.backupIds[1] # g.backupIds[2]
           /\ g.primaryId \in DOMAIN m
           /\ ~UsableRecord(RecordOf(m, g.primaryId))
           /\ UsableRecord(RecordOf(m, g.backupIds[1]))
           /\ UsableRecord(RecordOf(m, g.backupIds[2]))
           /\ SelectedIds(selOut.result) = <<g.backupIds[1]>>

\* C2: selected + unavailable = number of groups, and each group adds one
\* entry to exactly one of the two lists.
C2_OneEntryPerGroup ==
    SelDone =>
        LET gs == selIn.request.backups
            m == selIn.availabilityMap
            after == [k \in 0..Len(gs) |->
                         IF k = Len(gs)
                         THEN selOut.result
                         ELSE performProductSelection(SubSeq(gs, 1, k), m)]
        IN  /\ Len(selOut.result.selectedProducts)
                   + Len(selOut.result.unavailableProducts) = Len(gs)
            /\ \A k \in 1..Len(gs) :
                   LET ds == Len(after[k].selectedProducts)
                                 - Len(after[k - 1].selectedProducts)
                       du == Len(after[k].unavailableProducts)
                                 - Len(after[k - 1].unavailableProducts)
                   IN  /\ ds \in {0, 1}
                       /\ du \in {0, 1}
                       /\ ds + du = 1

\* C2 witness: two groups, one resolved to a product and one unavailable.
C2_Witness ==
    /\ SelDone
    /\ Len(selIn.request.backups) = 2
    /\ Len(selOut.result.selectedProducts) = 1
    /\ Len(selOut.result.unavailableProducts) = 1

\* The substitution records the groups gs must produce, in group order.
RECURSIVE ExpectedSubstitutions(_, _)
ExpectedSubstitutions(gs, m) ==
    IF gs = <<>>
    THEN <<>>
    ELSE LET g == Head(gs)
             S == UsableIndexes(g, m)
         IN  (IF S # {} /\ Least(S) > 1
              THEN <<[originalId |-> g.primaryId,
                      replacementId |-> Candidates(g)[Least(S)]]>>
              ELSE <<>>)
             \o ExpectedSubstitutions(Tail(gs), m)

SubstitutionIds(records) ==
    [i \in 1..Len(records) |->
        [originalId |-> records[i].originalId,
         replacementId |-> records[i].replacementId]]

\* C3: backupProductsUsed holds, in group order, one record (primary,
\* selected backup) for each group that selected a backup and nothing else,
\* and backupsUsed says whether there is such a group.
C3_AuditTrailMatchesSelections ==
    SelDone =>
        LET gs == selIn.request.backups
            m == selIn.availabilityMap
        IN  /\ SubstitutionIds(selOut.result.backupProductsUsed)
                   = ExpectedSubstitutions(gs, m)
            /\ selOut.response.backupProducts = selOut.result.backupProductsUsed
            /\ selOut.response.backupsUsed
                   <=> \E i \in 1..Len(gs) :
                          /\ UsableIndexes(gs[i], m) # {}
                          /\ Least(UsableIndexes(gs[i], m)) > 1

\* C3 witness: of two groups the first keeps its primary and the second
\* substitutes a backup, so exactly one record is reported.
C3_Witness ==
    /\ SelDone
    /\ Len(selIn.request.backups) = 2
    /\ Len(selOut.result.selectedProducts) = 2
    /\ selOut.result.selectedProducts[1].productId = selIn.request.backups[1].primaryId
    /\ Len(selOut.response.backupProducts) = 1
    /\ selOut.response.backupProducts[1].originalId = selIn.request.backups[2].primaryId
    /\ selOut.response.backupsUsed

\* A custom URL counts as present when a non-empty string was given.
CustomUrlPresent(request) == request.customUrl.defined /\ request.customUrl.value # ""

\* C4: no product selected: customUrl when present, else longLink (type
\* custom / longLink); exactly one product and allowPdp true or omitted:
\* that product's page (type pdp); otherwise target and type of the empty case.
C4_RedirectRules ==
    SelDone =>
        LET n == Len(selOut.result.selectedProducts)
            request == selIn.request
            emptyUrl == IF CustomUrlPresent(request)
                        THEN request.customUrl.value
                        ELSE request.longLink
            emptyType == IF CustomUrlPresent(request) THEN "custom" ELSE "longLink"
        IN  IF n = 0
            THEN /\ selOut.response.redirectUrl = emptyUrl
                 /\ selOut.response.cartUrlType = emptyType
            ELSE IF n = 1 /\ request.allowPdp \in {"absent", "true"}
            THEN /\ selOut.response.redirectUrl =
                        "https://www.target.com/p/-/A-"
                            \o selOut.result.selectedProducts[1].productId
                 /\ selOut.response.cartUrlType = "pdp"
            ELSE /\ selOut.response.redirectUrl = emptyUrl
                 /\ selOut.response.cartUrlType = emptyType

\* C4 witness: two products selected with allowPdp true and a custom URL:
\* the redirect is the custom URL.
C4_Witness ==
    /\ SelDone
    /\ Len(selOut.result.selectedProducts) = 2
    /\ selIn.request.allowPdp = "true"
    /\ CustomUrlPresent(selIn.request)
    /\ selOut.response.cartUrlType = "custom"
    /\ selOut.response.redirectUrl = selIn.request.customUrl.value

\* C5: fallbackApplied is true exactly when cartUrlType is not pdp, which is
\* exactly when nothing was selected, several products were selected or
\* allowPdp is false; finalType equals cartUrlType.
C5_FallbackAppliedIffNotPdp ==
    SelDone =>
        LET n == Len(selOut.result.selectedProducts)
            summary == selOut.response.cartOptionsSummary
        IN  /\ summary.fallbackApplied <=> selOut.response.cartUrlType # "pdp"
            /\ summary.finalType = selOut.response.cartUrlType
            /\ selOut.response.cartUrlType # "pdp"
                   <=> (n = 0 \/ n > 1 \/ selIn.request.allowPdp = "false")

\* C5 witness: two groups both resolve to a product, so the response falls
\* back although products are available.
C5_Witness ==
    /\ SelDone
    /\ Len(selIn.request.backups) = 2
    /\ Len(selOut.result.selectedProducts) = 2
    /\ selOut.response.cartOptionsSummary.fallbackApplied
    /\ selOut.response.cartUrlType # "pdp"
    /\ ~selOut.response.allProductsUnavailable

(***************************************************************************)
(* Claims on a resolution                                                  *)
(***************************************************************************)

\* The upstream lookup of a call failed: it was answered with an error.
LookupFailed(c) == c.answer # undefined /\ ~c.answer.ok

\* The upstream lookup of a call was answered with a response.
LookupAnswered(c) == c.answer # undefined /\ c.answer.ok

\* The stores of a response body: none when the body is empty or has no
\* array of stores.
StoresOf(body) ==
    IF body = EmptyBody \/ body = undefined THEN <<>>
    ELSE IF body.Store_stock_results.kind # "array" THEN <<>>
    ELSE body.Store_stock_results.list

\* The index of the store a body resolves to for a request: the requested
\* store when it is listed, else the first store with stock, else the first.
StoreIndex(stores, storeId) ==
    LET preferred == {i \in 1..Len(stores) :
                         storeId.defined /\ storeId.value # ""
                            /\ stores[i].Store_id = storeId.value}
        stocked == {i \in 1..Len(stores) : stores[i].In_stock /\ stores[i].Stock_level > 0}
    IN  IF preferred # {} THEN Least(preferred)
        ELSE IF stocked # {} THEN Least(stocked)
        ELSE 1

\* The ProductAvailability a response body of an identifier stands for.
DerivedAvailability(id, body, storeId) ==
    LET stores == StoresOf(body)
    IN  IF stores = <<>>
        THEN [productId |-> id, inStock |-> FALSE, availableQuantity |-> 0]
        ELSE LET store == stores[StoreIndex(stores, storeId)]
             IN  [productId |-> id,
                  inStock |-> store.In_stock /\ store.Stock_level > 0,
                  availableQuantity |-> store.Stock_level,
                  storeId |-> store.Store_id]

ProductPage(id) == "https://www.target.com/p/-/A-" \o id

\* C6: a resolution never raises, and once it is done its redirectUrl is the
\* product page of a selected identifier, the customUrl or the longLink;
\* when every lookup failed it is the customUrl if present, else the
\* longLink, and allProductsUnavailable is true.
C6_RedirectAlwaysProduced ==
    \A r \in Slots :
        /\ pc[r] # "raised"
        /\ pc[r] = "done" =>
             LET response == out[r].response
                 selected == SelectedIds(out[r].selection)
                 fallback == IF CustomUrlPresent(req[r])
                             THEN req[r].customUrl.value
                             ELSE req[r].longLink
             IN  /\ \/ \E i \in 1..Len(selected) :
                          /\ response.redirectUrl = ProductPage(selected[i])
                          /\ \E j \in 1..Len(batch[r].productIds) :
                                 batch[r].productIds[j] = selected[i]
                    \/ response.redirectUrl = fallback
                 /\ (\A tcin \in DOMAIN call[r] : LookupFailed(call[r][tcin]))
                       => /\ response.redirectUrl = fallback
                          /\ response.allProductsUnavailable = TRUE

\* C6 witness: a batch of two identifiers whose lookups fail in two ways (rate
\* limited, no response) ends with the longLink and allProductsUnavailable.
C6_Witness ==
    /\ pc[1] = "done"
    /\ Len(batch[1].productIds) = 2
    /\ \A tcin \in DOMAIN call[1] : LookupFailed(call[1][tcin])
    /\ \E tcin \in DOMAIN call[1] : call[1][tcin].answer.status = 429
    /\ \E tcin \in DOMAIN call[1] : call[1][tcin].answer.status = 0
    /\ ~req[1].customUrl.defined
    /\ out[1].response.redirectUrl = LongLink
    /\ out[1].response.allProductsUnavailable

\* C7: whatever the other calls of the batch were answered with and in
\* whatever order the calls settle, a call answered with a response is
\* fulfilled with that response (never failed or cancelled by a sibling),
\* and the finished resolution holds for its identifier the availability
\* derived from that response.
C7_FailuresAreIsolated ==
    \A r \in Slots :
        /\ \A tcin \in DOMAIN call[r] :
               LookupAnswered(call[r][tcin]) =>
                   /\ call[r][tcin].promise.state = "fulfilled"
                   /\ call[r][tcin].promise.stock = call[r][tcin].answer.body
        /\ pc[r] \in {"done", "raised"} =>
               \A tcin \in DOMAIN call[r] :
                   LookupAnswered(call[r][tcin]) =>
                       /\ tcin \in DOMAIN out[r].availabilityMap
                       /\ out[r].availabilityMap[tcin] =
                              DerivedAvailability(tcin, call[r][tcin].answer.body,
                                                  req[r].storeId)

\* C7 witness: the first identifier of a batch of two was not found, the
\* second one was answered with a store in stock and is recorded in stock.
C7_Witness ==
    /\ pc[1] = "done"
    /\ Len(batch[1].productIds) = 2
    /\ LET first == batch[1].productIds[1]
           second == batch[1].productIds[2]
       IN  /\ LookupFailed(call[1][first])
           /\ call[1][first].answer.status = 404
           /\ LookupAnswered(call[1][second])
           /\ out[1].availabilityMap[second].inStock
           /\ out[1].availabilityMap[second].availableQuantity = 2

\* The errors list has an entry for the identifier.
HasError(errors, id) == \E i \in 1..Len(errors) : errors[i].productId = id

\* C8: after checkBatchAvailability every requested identifier has a record
\* in the availability map; an identifier whose lookup failed or whose
\* response resolves to no store (no body, no Store_stock_results, no list,
\* an empty list) is recorded as not in stock with quantity 0 and has an
\* entry in the errors list; an identifier resolved to a store has none.
C8_EveryIdentifierRecorded ==
    \A r \in Slots :
        pc[r] = "done" =>
            \A i \in 1..Len(batch[r].productIds) :
                LET id == batch[r].productIds[i]
                    c == call[r][id]
                    resolved == /\ c.promise.state = "fulfilled"
                                /\ StoresOf(c.promise.stock) # <<>>
                IN  /\ id \in DOMAIN out[r].availabilityMap
                    /\ ~resolved =>
                          /\ out[r].availabilityMap[id] =
                                 [productId |-> id, inStock |-> FALSE, availableQuantity |-> 0]
                          /\ HasError(out[r].errors, id)
                    /\ resolved => ~HasError(out[r].errors, id)

\* C8 witness: a batch of two identifiers, one answered with an empty store
\* list and one resolved to a store: one error entry, two records.
C8_Witness ==
    /\ pc[1] = "done"
    /\ Len(batch[1].productIds) = 2
    /\ LET first == batch[1].productIds[1]
           second == batch[1].productIds[2]
       IN  /\ call[1][first].answer = Ok(Body(Results(<<>>)))
           /\ StoresOf(call[1][second].promise.stock) # <<>>
           /\ out[1].availabilityMap[first].availableQuantity = 0
           /\ first \in DOMAIN out[1].availabilityMap
           /\ second \in DOMAIN out[1].availabilityMap
    /\ Len(out[1].errors) = 1
    /\ out[1].errors[1].code = "NO_STORES"

\* Resolution b resolves the batch of the finished resolution a once more,
\* and starts while the stock TTL (5 minutes) counted from the start of a has
\* not elapsed.
ResolvedAgain(a, b) ==
    /\ a # b
    /\ pc[a] = "done"
    /\ pc[b] # "idle"
    /\ a \in batch[b].after
    /\ batch[b].productIds = batch[a].productIds
    /\ req[b].zipCode = req[a].zipCode
    /\ req[b].storeId = req[a].storeId
    /\ batch[b].startedAt <= batch[a].startedAt + 5 * 60 * 1000

\* A call whose upstream request was sent.
Issued(c) == ~c.promise.fromCache

\* C9 as stated: the second resolution of a batch within the TTL window
\* issues no upstream call and ends with the availability values of the
\* first.
C9_SecondResolutionIssuesNoCall ==
    \A a \in Slots, b \in Slots :
        ResolvedAgain(a, b) =>
            /\ \A tcin \in DOMAIN call[b] : ~Issued(call[b][tcin])
            /\ pc[b] = "done" => out[b].availabilityMap = out[a].availabilityMap

\* C9: in the second resolution of a batch within the TTL window, every
\* identifier whose lookup in the first resolution returned a non-empty
\* response body is served from the cache: no upstream call is issued for
\* it, it is served the body the first resolution got, and its availability
\* values are those of the first resolution.
C9_CachedLookupsAreNotRepeated ==
    \A a \in Slots, b \in Slots :
        ResolvedAgain(a, b) =>
            \A tcin \in DOMAIN call[a] :
                (/\ call[a][tcin].promise.state = "fulfilled"
                 /\ call[a][tcin].promise.stock # EmptyBody)
                    => /\ ~Issued(call[b][tcin])
                       /\ call[b][tcin].promise.stock = call[a][tcin].promise.stock
                       /\ pc[b] = "done" =>
                              out[b].availabilityMap[tcin] = out[a].availabilityMap[tcin]

\* C9 witness: the first resolution got a body for one identifier and an
\* error for the other; the second one starts at the last instant of the
\* window, reads the first identifier from the cache and asks upstream for
\* the other again, this time with a different outcome.
C9_Witness ==
    /\ ResolvedAgain(1, 2)
    /\ pc[2] = "done"
    /\ batch[1].productIds = <<"00000123", "12345678">>
    /\ batch[1].startedAt = 0
    /\ batch[2].startedAt = 5 * 60 * 1000
    /\ LookupAnswered(call[1]["00000123"])
    /\ ~Issued(call[2]["00000123"])
    /\ LookupFailed(call[1]["12345678"])
    /\ LookupAnswered(call[2]["12345678"])
    /\ out[2].availabilityMap["12345678"] # out[1].availabilityMap["12345678"]

(***************************************************************************)
(* Claims on the caches                                                    *)
(***************************************************************************)

\* The default lifetime of an entry, in milliseconds: 5 minutes in the stock
\* cache, 1 hour in the product cache.
DefaultLifetime(ns) == IF ns = "stock" THEN 5 * 60 * 1000 ELSE 60 * 60 * 1000

\* C10: an entry last written by setCachedValue without a ttl (and not
\* deleted since) is read with its value at every instant up to and
\* including the instant it was stored plus the default lifetime of its
\* cache, is absent at every later instant, and is never stored as an entry
\* that does not expire.
C10_OmittedTtlExpiresAtDefault ==
    \A ns \in Namespaces :
        \A key \in DOMAIN stored[ns] :
            stored[ns][key].ttl = NoTtl =>
                LET expiry == stored[ns][key].at + DefaultLifetime(ns)
                IN  /\ clock <= expiry =>
                          getCachedValue(CacheOf(ns), key, clock) = stored[ns][key].value
                    /\ clock > expiry =>
                          getCachedValue(CacheOf(ns), key, clock) = undefined
                    /\ key \in DOMAIN CacheOf(ns) => CacheOf(ns)[key].t # 0

\* C10 witness: entries stored without a ttl at time 0 in both caches; one
\* millisecond after the 5 minutes the stock entry is absent and the product
\* entry is still read.
C10_Witness ==
    /\ clock = 5 * 60 * 1000 + 1
    /\ \A ns \in Namespaces :
           \E key \in DOMAIN stored[ns] :
               /\ stored[ns][key].ttl = NoTtl
               /\ stored[ns][key].at = 0
    /\ \E key \in DOMAIN stored.stock :
           getCachedValue(stockCache, key, clock) = undefined
    /\ \E key \in DOMAIN stored.product :
           getCachedValue(productCache, key, clock) = stored.product[key].value

(***************************************************************************)
(* Claims on the upstream cost of a resolution                             *)
(***************************************************************************)

\* The selection of a finished resolution evaluates an identifier: it is, in
\* some group, the candidate selected or a candidate before it, or any
\* candidate of a group without a usable one.
Evaluated(r, id) ==
    \E k \in 1..Len(req[r].backups) :
        LET g == req[r].backups[k]
            usable == UsableIndexes(g, out[r].availabilityMap)
        IN  \E i \in 1..Len(Candidates(g)) :
                /\ Candidates(g)[i] = id
                /\ usable = {} \/ i <= Least(usable)

\* C11: no upstream stock call is spent on a backup that comes after the
\* first usable candidate of its group: every identifier a finished
\* resolution called upstream for is one its selection evaluates.
C11_NoCallForSkippedBackups ==
    \A r \in Slots :
        pc[r] = "done" =>
            \A tcin \in DOMAIN call[r] :
                Issued(call[r][tcin]) => Evaluated(r, tcin)

(***************************************************************************)
(* Claims on the reason of a substitution and on unavailable groups        *)
(***************************************************************************)

\* C12: every substitution record says OUT_OF_STOCK when its primary has a
\* record in the availability map (one that fails the usable predicate) and
\* PRIMARY_UNUSABLE when the primary has no record under either of its keys;
\* no other reason occurs.
C12_SubstitutionReason ==
    SelDone =>
        \A i \in 1..Len(selOut.result.backupProductsUsed) :
            LET used == selOut.result.backupProductsUsed[i]
                primary == RecordOf(selIn.availabilityMap, used.originalId)
            IN  /\ used.reason \in {"OUT_OF_STOCK", "PRIMARY_UNUSABLE"}
                /\ primary # undefined =>
                       ~UsableRecord(primary) /\ used.reason = "OUT_OF_STOCK"
                /\ primary = undefined => used.reason = "PRIMARY_UNUSABLE"

\* C12 witness: the primary has no record, the first backup has an unusable
\* one and the second backup replaces the primary with PRIMARY_UNUSABLE.
C12_Witness ==
    /\ SelDone
    /\ Len(selIn.request.backups) = 1
    /\ Len(selIn.request.backups[1].backupIds) = 2
    /\ RecordOf(selIn.availabilityMap, selIn.request.backups[1].primaryId) = undefined
    /\ Len(selOut.result.backupProductsUsed) = 1
    /\ selOut.result.backupProductsUsed[1].replacementId
           = selIn.request.backups[1].backupIds[2]
    /\ selOut.result.backupProductsUsed[1].replacementId
           # selIn.request.backups[1].backupIds[1]
    /\ selOut.result.backupProductsUsed[1].reason = "PRIMARY_UNUSABLE"

\* The primaries of the groups gs without a usable candidate, in group order.
RECURSIVE ExpectedUnavailable(_, _)
ExpectedUnavailable(gs, m) ==
    IF gs = <<>>
    THEN <<>>
    ELSE (IF UsableIndexes(Head(gs), m) = {} THEN <<Head(gs).primaryId>> ELSE <<>>)
            \o ExpectedUnavailable(Tail(gs), m)

\* C13: unavailableProducts holds, in group order, the primaryId of exactly
\* the groups in which neither the primary nor a backup is usable; these
\* groups add nothing to selectedProducts and no substitution record; and
\* allProductsUnavailable is true iff selectedProducts is empty, which is iff
\* every group is unavailable.
C13_UnavailableGroups ==
    SelDone =>
        LET gs == selIn.request.backups
            m == selIn.availabilityMap
            available == {k \in 1..Len(gs) : UsableIndexes(gs[k], m) # {}}
            substituted == {k \in available : 1 \notin UsableIndexes(gs[k], m)}
        IN  /\ selOut.result.unavailableProducts = ExpectedUnavailable(gs, m)
            /\ Len(selOut.result.selectedProducts) = Cardinality(available)
            /\ Len(selOut.result.backupProductsUsed) = Cardinality(substituted)
            /\ selOut.response.allProductsUnavailable
                   <=> selOut.result.selectedProducts = <<>>
            /\ selOut.response.allProductsUnavailable <=> available = {}

\* C13 witness: of two groups the first has no usable candidate (a primary
\* and a backup with unusable records) and the second one has, so one
\* primary is reported unavailable and allProductsUnavailable is false.
C13_Witness ==
    /\ SelDone
    /\ Len(selIn.request.backups) = 2
    /\ Len(selIn.request.backups[1].backupIds) = 1
    /\ UsableIndexes(selIn.request.backups[1], selIn.availabilityMap) = {}
    /\ RecordOf(selIn.availabilityMap, selIn.request.backups[1].backupIds[1]) # undefined
    /\ selOut.result.unavailableProducts = <<selIn.request.backups[1].primaryId>>
    /\ Len(selOut.result.selectedProducts) = 1
    /\ ~selOut.response.allProductsUnavailable

(***************************************************************************)
(* Claims on the resolution of one identifier                              *)
(***************************************************************************)

StoreDone == selOut.phase = "resolved"

\* The store list of the stock data, when it has one.
HasStoreList(stockData) ==
    /\ stockData # undefined
    /\ stockData # EmptyBody
    /\ stockData.Store_stock_results.kind = "array"

\* The request names a store: storeId is a non-empty string.
StoreRequested(storeId) == storeId.defined /\ storeId.value # ""

\* C14: (1) a requested store that is in the list is chosen (its first
\* listing), whatever its stock and whatever stock other stores have; (2)
\* otherwise the first store of the list with In_stock and Stock_level > 0;
\* (3) otherwise the first store of the list; an empty list yields no store
\* and the record without stock data.
C14_StorePriority ==
    (StoreDone /\ HasStoreList(selIn.stockData)) =>
        LET stores == selIn.stockData.Store_stock_results.list
            requested == {i \in 1..Len(stores) :
                             /\ StoreRequested(selIn.storeId)
                             /\ stores[i].Store_id = selIn.storeId.value}
            stocked == {i \in 1..Len(stores) :
                           stores[i].In_stock /\ stores[i].Stock_level > 0}
            record == selOut.result.availabilityMap[selIn.productId]
        IN  /\ stores = <<>> =>
                   /\ selOut.store = undefined
                   /\ record = [productId |-> selIn.productId, inStock |-> FALSE,
                                availableQuantity |-> 0]
            /\ requested # {} =>
                   /\ selOut.store = stores[Least(requested)]
                   /\ record.storeId = selIn.storeId.value
            /\ (requested = {} /\ stocked # {}) =>
                   /\ selOut.store = stores[Least(stocked)]
                   /\ record.storeId = stores[Least(stocked)].Store_id
            /\ (stores # <<>> /\ requested = {} /\ stocked = {}) =>
                   /\ selOut.store = stores[1]
                   /\ record.storeId = stores[1].Store_id

\* C14 witness: the requested store is listed second and out of stock, the
\* first store of the list is in stock; the requested store is chosen.
C14_Witness ==
    /\ StoreDone
    /\ selIn.storeId = Str("1771")
    /\ selIn.stockData = Body(Results(<<StoreAt("2000", TRUE, 2), StoreAt("1771", FALSE, 0)>>))
    /\ selOut.store = StoreAt("1771", FALSE, 0)
    /\ ~selOut.result.availabilityMap[selIn.productId].inStock

\* C15: the record of the identifier has inStock only if a store was
\* selected, that store reports In_stock and the record's availableQuantity
\* is positive; without a selected store it has inStock false and quantity
\* 0; and the quantity is not negative when no listed quantity is.
C15_InStockNeedsStockAndQuantity ==
    StoreDone =>
        LET record == selOut.result.availabilityMap[selIn.productId]
            stores == IF HasStoreList(selIn.stockData)
                      THEN selIn.stockData.Store_stock_results.list
                      ELSE <<>>
        IN  /\ record.inStock =>
                   /\ selOut.store # undefined
                   /\ selOut.store.In_stock
                   /\ record.availableQuantity > 0
            /\ selOut.store = undefined =>
                   /\ record.inStock = FALSE
                   /\ record.availableQuantity = 0
            /\ (\A i \in 1..Len(stores) : stores[i].Stock_level >= 0) =>
                   record.availableQuantity >= 0

\* C15 witness: the selected store reports In_stock with quantity 0, and the
\* record is not in stock.
C15_Witness ==
    /\ StoreDone
    /\ selOut.store # undefined
    /\ selOut.store.In_stock
    /\ selOut.store.Stock_level = 0
    /\ selOut.result.availabilityMap[selIn.productId].inStock = FALSE
    /\ selOut.result.availabilityMap[selIn.productId].availableQuantity = 0

(***************************************************************************)
(* Claims on identifier representations                                    *)
(***************************************************************************)

\* The stock map checkBulkStoreStock returned to the resolution in slot r.
StockMapOf(r) ==
    checkBulkStoreStock_Join(batch[r].productIds,
                             [tcin \in DOMAIN call[r] |-> call[r][tcin].promise]).stockMap

\* C16: after a batch resolution, every identifier of the batch has the same
\* availability record under the identifier as written and under its
\* numeric string, that record is the identifier's own, and the stock map of
\* the batch has the same entry (or none) under both forms.
C16_RepresentationIndependent ==
    \A r \in Slots :
        pc[r] = "done" =>
            LET stockMap == StockMapOf(r)
            IN  \A i \in 1..Len(batch[r].productIds) :
                    LET id == batch[r].productIds[i]
                        canonical == NumberToString(id)
                    IN  /\ getAvailability(out[r].availabilityMap, id) # undefined
                        /\ getAvailability(out[r].availabilityMap, id).productId = id
                        /\ getAvailability(out[r].availabilityMap, canonical) =
                               getAvailability(out[r].availabilityMap, id)
                        /\ MapGet(stockMap, canonical) = MapGet(stockMap, id)

\* C16 witness: identifier '00000123', whose numeric string is '123', was
\* resolved to a store next to another identifier, and both forms are keys of
\* the availability map and of the stock map.
C16_Witness ==
    /\ pc[1] = "done"
    /\ batch[1].productIds = <<"12345678", "00000123">>
    /\ "123" \in DOMAIN out[1].availabilityMap
    /\ out[1].availabilityMap["123"].inStock
    /\ "123" \in DOMAIN StockMapOf(1)
    /\ "00000123" \in DOMAIN StockMapOf(1)

(***************************************************************************)
(* Claims on the stock cache key                                           *)
(***************************************************************************)

\* C17: two lookups that share a stock cache key have the same identifier,
\* the same zipCode and the same storeId, an absent storeId differing from
\* every storeId that is sent upstream (an empty storeId is not sent and
\* counts as absent).
C17_KeysSeparateContexts ==
    (selOut.phase = "keyed" /\ selOut.a = selOut.b) =>
        StoreStockParams(selIn.a) = StoreStockParams(selIn.b)

(***************************************************************************)
(* Claims on the errors of a batch resolution                              *)
(***************************************************************************)

\* The codes recorded in the errors list for an identifier.
ErrorCodes(errors, id) ==
    {errors[i].code : i \in {j \in 1..Len(errors) : errors[j].productId = id}}

\* C18: after a batch resolution, two identifiers whose lookups failed in
\* different ways (not found, rate limited, unauthorized, a transport or
\* server failure) have different codes in the errors list, and every
\* identifier whose lookup failed is unavailable for selection.
C18_FailureKindsDistinguishable ==
    \A r \in Slots :
        pc[r] = "done" =>
            \A a \in DOMAIN call[r], b \in DOMAIN call[r] :
                LET pa == call[r][a].promise
                    pb == call[r][b].promise
                IN  /\ pa.state = "rejected" =>
                           ~isProductAvailable(getAvailability(out[r].availabilityMap, a))
                    /\ (pa.state = "rejected" /\ pb.state = "rejected" /\ pa.code # pb.code) =>
                           /\ ErrorCodes(out[r].errors, a) # {}
                           /\ ErrorCodes(out[r].errors, b) # {}
                           /\ ErrorCodes(out[r].errors, a) # ErrorCodes(out[r].errors, b)

(***************************************************************************)
(* Claims on the fan-out of a batch resolution                             *)
(***************************************************************************)

\* C19: from the start of a batch resolution on, the checkStoreStock of
\* every identifier of the batch has been started (none waits for another
\* to complete), nothing is selected while the resolution waits, and when
\* selection has run no call of the batch is pending.
C19_ScatterGather ==
    \A r \in Slots :
        /\ pc[r] # "idle" =>
               DOMAIN call[r] = {batch[r].productIds[i] : i \in 1..Len(batch[r].productIds)}
        /\ pc[r] = "waiting" => out[r] = NoOutcome
        /\ pc[r] \in {"done", "raised"} =>
               \A tcin \in DOMAIN call[r] : call[r][tcin].promise.state # "pending"

\* C19 witness: the upstream calls of both identifiers of a batch are in
\* flight at the same time.
C19_Witness ==
    /\ pc[1] = "waiting"
    /\ Len(batch[1].productIds) = 2
    /\ \A tcin \in DOMAIN call[1] :
           /\ call[1][tcin].promise.state = "pending"
           /\ Issued(call[1][tcin])

(***************************************************************************)
(* Claims on the lifetime of a stock cache entry                           *)
(***************************************************************************)

\* The entry under key is the same before and after the step.
EntryKept(key) == key \in DOMAIN stockCache' /\ stockCache'[key] = stockCache[key]

\* The step is the arrival of the upstream response of a call on key that
\* was waiting for it.
PendingCallWrites(key) ==
    \E r \in Slots :
        /\ pc[r] = "waiting"
        /\ \E tcin \in DOMAIN call[r] :
               /\ generateProductStockCacheKey(req[r].zipCode, tcin, req[r].storeId) = key
               /\ call[r][tcin].promise.state = "pending"
               /\ call'[r][tcin].promise.state = "fulfilled"

\* C20 as stated: no step changes the value or the expiry time of a stock
\* cache entry that has not expired.
C20_LiveEntryNeverChanges ==
    [][\A key \in DOMAIN stockCache :
           ~Expired(stockCache[key], clock) => EntryKept(key)]_vars

\* C20: a stock cache entry that has not expired keeps its value and its
\* expiry time in every step (a cache hit, the start of a resolution, the
\* passing of time, a failed lookup) except the arrival of the upstream
\* response of a call on its key that was already waiting for it.
C20_LiveEntryChangesOnlyByPendingCall ==
    [][\A key \in DOMAIN stockCache :
           ~Expired(stockCache[key], clock) =>
               EntryKept(key) \/ PendingCallWrites(key)]_vars

\* C20 witness: an entry written at the start is hit by a second resolution
\* at the last instant of its lifetime, and still expires at that instant.
C20_Witness ==
    /\ clock = 5 * 60 * 1000
    /\ pc[2] = "done"
    /\ batch[2].startedAt = 5 * 60 * 1000
    /\ ~Issued(call[2]["00000123"])
    /\ "stock:04457:undefined:00000123" \in DOMAIN stockCache
    /\ stockCache["stock:04457:undefined:00000123"].t = 5 * 60 * 1000

(***************************************************************************)
(* Claims on checkBatchAvailability called with any list of productIds     *)
(***************************************************************************)

\* C21: in one call of checkBatchAvailability at most one upstream call is
\* issued per distinct identifier, also when the identifier is repeated in
\* productIds.
C21_OneCallPerIdentifier ==
    selOut.phase \in {"waiting", "returned"} =>
        \A i \in 1..Len(selOut.calls), j \in 1..Len(selOut.calls) :
            (/\ i # j
             /\ selIn.productIds[i] = selIn.productIds[j]
             /\ Issued(selOut.calls[i]))
                => ~Issued(selOut.calls[j])

(***************************************************************************)
(* Claims on the store id in the response                                  *)
(***************************************************************************)

AnsweredInStock(c, storeId) ==
    /\ LookupAnswered(c)
    /\ \E i \in 1..Len(StoresOf(c.answer.body)) :
           LET store == StoresOf(c.answer.body)[i]
           IN  store.Store_id = storeId /\ store.In_stock /\ store.Stock_level > 0

\* C24: every entry of selectedProducts of a finished resolution carries the
\* record of its identifier, in stock with a positive quantity, and that
\* identifier's lookup was answered with stock in the selected store; a
\* 'pdp' redirect is the product page of such an identifier.
C24_SelectedAreInStock ==
    \A r \in Slots :
        pc[r] = "done" =>
            LET selected == out[r].selection.selectedProducts
            IN  /\ \A i \in 1..Len(selected) :
                       /\ selected[i].availability.inStock
                       /\ selected[i].availability.availableQuantity > 0
                       /\ selected[i].availability.productId = selected[i].productId
                       /\ selected[i].productId \in DOMAIN call[r]
                       /\ AnsweredInStock(call[r][selected[i].productId],
                                          selected[i].availability.storeId)
                /\ out[r].response.cartUrlType = "pdp" =>
                       /\ Len(selected) = 1
                       /\ out[r].response.redirectUrl = ProductPage(selected[1].productId)

\* C24 witness: the primary's lookup failed and its backup was answered
\* with stock; the redirect is the product page of the backup.
C24_Witness ==
    /\ pc[1] = "done"
    /\ req[1].backups = <<[primaryId |-> "12345678", backupIds |-> <<"87654321">>]>>
    /\ LookupFailed(call[1]["12345678"])
    /\ out[1].response.cartUrlType = "pdp"
    /\ out[1].response.redirectUrl = ProductPage("87654321")

\* C25: after checkBatchAvailability on string-distinct identifiers,
\* getAvailability returns for every identifier p a record with productId p
\* that stands for p's own upstream outcome: not in stock with quantity 0
\* when p's lookup failed, the availability of p's response otherwise.
C25_RecordsAreTheIdentifiersOwn ==
    (/\ selOut.phase = "returned"
     /\ \A i \in 1..Len(selIn.productIds), j \in 1..Len(selIn.productIds) :
            i # j => selIn.productIds[i] # selIn.productIds[j])
        => \A i \in 1..Len(selIn.productIds) :
               LET p == selIn.productIds[i]
                   record == getAvailability(selOut.result.availabilityMap, p)
               IN  /\ record # undefined
                   /\ record.productId = p
                   /\ LookupFailed(selOut.calls[i]) =>
                          record = [productId |-> p, inStock |-> FALSE,
                                    availableQuantity |-> 0]
                   /\ LookupAnswered(selOut.calls[i]) =>
                          record = DerivedAvailability(p, selOut.calls[i].answer.body,
                                                       selIn.storeId)

\* C26: when a resolution is done, every primary of the request has a
\* record in the availability map, and every substitution of the response
\* has reason OUT_OF_STOCK.
C26_ReasonIsAlwaysOutOfStock ==
    \A r \in Slots :
        pc[r] = "done" =>
            /\ \A k \in 1..Len(req[r].backups) :
                   getAvailability(out[r].availabilityMap, req[r].backups[k].primaryId)
                       # undefined
            /\ \A i \in 1..Len(out[r].response.backupProducts) :
                   out[r].response.backupProducts[i].reason = "OUT_OF_STOCK"

\* C26 witness: the primary's lookup was rate limited, its backup is in
\* stock, and the substitution is reported as OUT_OF_STOCK.
C26_Witness ==
    /\ pc[1] = "done"
    /\ req[1].backups = <<[primaryId |-> "00000123", backupIds |-> <<"12345678">>]>>
    /\ LookupFailed(call[1]["00000123"])
    /\ call[1]["00000123"].answer.status = 429
    /\ out[1].response.backupProducts =
           <<[originalId |-> "00000123", replacementId |-> "12345678",
              reason |-> "OUT_OF_STOCK"]>>

(***************************************************************************)
(* Claims on failed lookups and on concurrent resolutions                  *)
(***************************************************************************)

\* The step settles a pending call of a resolution with a failure.
LookupFails(r, tcin) ==
    /\ tcin \in DOMAIN call[r]
    /\ call[r][tcin].promise.state = "pending"
    /\ call'[r][tcin].promise.state = "rejected"

\* C27: the step in which a lookup fails leaves the stock cache as it was,
\* and a resolution that starts after one in which an identifier's lookup
\* failed calls upstream for that identifier again.
C27_FailuresAreNotCached ==
    [][/\ \A r \in Slots, tcin \in TCINS :
              LookupFails(r, tcin) => stockCache' = stockCache
       /\ \A a \in Slots, b \in Slots :
              (pc[a] = "done" /\ pc[b] = "idle" /\ pc'[b] = "waiting") =>
                  \A tcin \in (DOMAIN call[a]) \cap (DOMAIN call'[b]) :
                      LookupFailed(call[a][tcin]) =>
                          /\ call'[b][tcin].promise.state = "pending"
                          /\ Issued(call'[b][tcin])]_vars

\* C27 witness: in the first resolution the lookup of '00000123' failed and
\* that of its sibling was answered; the second resolution, at the same
\* instant, reads the sibling from the cache and calls upstream for
\* '00000123', for which the cache has no entry.
C27_Witness ==
    /\ pc[1] = "done"
    /\ pc[2] = "waiting"
    /\ clock = 0
    /\ batch[1].productIds = <<"00000123", "12345678">>
    /\ batch[2].productIds = <<"00000123", "12345678">>
    /\ LookupFailed(call[1]["00000123"])
    /\ call[2]["00000123"].promise.state = "pending"
    /\ call[2]["12345678"].promise.fromCache
    /\ generateProductStockCacheKey(ZipCode, "00000123", NoString) \notin DOMAIN stockCache

(***************************************************************************)
(* Claims on the agreement of redirectUrl and cartUrlType                  *)
(***************************************************************************)

\* C28: in every response cartUrlType 'pdp' goes with the product page of
\* the single selected product, 'custom' with the customUrl of the request
\* and 'longLink' with its longLink.
C28_UrlAndTypeAgree ==
    SelDone =>
        LET response == selOut.response
            request == selIn.request
        IN  /\ response.cartUrlType \in {"pdp", "custom", "longLink"}
            /\ response.cartUrlType = "pdp" =>
                   /\ Len(selOut.result.selectedProducts) = 1
                   /\ response.redirectUrl =
                          generateProductUrl(selOut.result.selectedProducts[1].productId)
            /\ response.cartUrlType = "custom" =>
                   /\ request.customUrl.defined
                   /\ response.redirectUrl = request.customUrl.value
            /\ response.cartUrlType = "longLink" =>
                   response.redirectUrl = request.longLink

\* C28 witness: a request with an empty customUrl and allowPdp false for
\* which one product is selected is answered with the longLink, type
\* 'longLink'.
C28_Witness ==
    /\ SelDone
    /\ selIn.request.customUrl = Str("")
    /\ selIn.request.allowPdp = "false"
    /\ Len(selOut.result.selectedProducts) = 1
    /\ selOut.response.cartUrlType = "longLink"
    /\ selOut.response.redirectUrl = selIn.request.longLink

\* C29: however two resolutions interleave, a finished resolution holds for
\* every identifier it called upstream for the availability of its own
\* response, and for every identifier it read from the cache that of a
\* response the other resolution had received; and every entry of the stock
\* cache is the whole response of the last write under its key, with the
\* lifetime of that write.
C29_LastWriteWins ==
    /\ \A r \in Slots :
           pc[r] = "done" =>
               \A tcin \in DOMAIN call[r] :
                   LET c == call[r][tcin]
                   IN  /\ (Issued(c) /\ LookupAnswered(c)) =>
                              out[r].availabilityMap[tcin] =
                                  DerivedAvailability(tcin, c.answer.body, req[r].storeId)
                       /\ ~Issued(c) =>
                              /\ \E q \in Slots \ {r} :
                                     /\ tcin \in DOMAIN call[q]
                                     /\ LookupAnswered(call[q][tcin])
                                     /\ call[q][tcin].answer.body = c.promise.stock
                              /\ out[r].availabilityMap[tcin] =
                                     DerivedAvailability(tcin, c.promise.stock,
                                                         req[r].storeId)
    /\ \A key \in DOMAIN stockCache :
           /\ key \in DOMAIN stored.stock
           /\ stockCache[key].v = stored.stock[key].value
           /\ stockCache[key].t = stored.stock[key].at + 5 * 60 * 1000

\* C29 witness: both resolutions missed the cache for '00000123' and both
\* called upstream; the first was answered in stock, the second out of
\* stock, each reports its own answer, and the cache holds the answer of the
\* first, which was written last.
C29_Witness ==
    /\ pc[1] = "done"
    /\ pc[2] = "done"
    /\ Issued(call[1]["00000123"])
    /\ Issued(call[2]["00000123"])
    /\ out[1].availabilityMap["00000123"].inStock
    /\ out[2].availabilityMap["00000123"].inStock = FALSE
    /\ LookupAnswered(call[2]["00000123"])
    /\ call[2]["00000123"].answer.body # EmptyBody
    /\ stockCache[generateProductStockCacheKey(ZipCode, "00000123", NoString)].v =
           call[1]["00000123"].answer.body

(***************************************************************************)
(* Claims on termination                                                   *)
(***************************************************************************)

\* C30: when every upstream call settles, a resolution that has started
\* returns a response: the join of checkBulkStoreStock completes and
\* selectAvailableProducts returns, whatever lookups failed or timed out.
C30_ResolutionTerminates == (pc[1] = "waiting") ~> (pc[1] = "done")

\* C30 witness: a resolution has returned a response although the lookup of
\* '12345678' timed out; the response selects the backup '00000123', whose
\* lookup was answered in stock.
C30_Witness ==
    /\ pc[1] = "done"
    /\ DOMAIN call[1] = {"12345678", "00000123"}
    /\ call[1]["12345678"].answer = Failed(0, "")
    /\ LookupAnswered(call[1]["00000123"])
    /\ out[1].raised = FALSE
    /\ \E i \in 1..Len(out[1].selection.selectedProducts) :
           out[1].selection.selectedProducts[i].productId = "00000123"
    /\ out[1].response.allProductsUnavailable = FALSE

====
